---- MODULE Spec2Model ----
(***************************************************************************)
(* Block layout of the Blockly renderers: RenderInfo.measure() and its six *)
(* passes (createRows_, addElemSpacing_, computeBounds_, alignRowElements_,*)
(* addRowSpacing_, finalize_), over rows of Measurables.                    *)
(*                                                                         *)
(* Row objects are JavaScript objects shared by reference (this.topRow is  *)
(* also an entry of this.rows), so a RenderInfo keeps its rows in a heap   *)
(* (a sequence of Row records) and this.rows is a sequence of references   *)
(* (indices) into it.                                                      *)
(***************************************************************************)
EXTENDS Integers, Sequences, FiniteSets, TLC

VARIABLES block, info, pc, calls, last,
          constants, connection, shape,
          drawer, highlighter,
          typeMap_, returned,
          workspace, workspaceSearch, searched,
          dynamic, paths, sizes,
          field, validated

\* The state of the parts that a layout pass leaves alone: the constant
\* provider and the last shapeFor call, the drawer and the highlighter, the
\* registry and what its last call returned.
shapeVars == <<connection, shape>>
drawVars == <<drawer, highlighter>>
registryVars == <<typeMap_, returned>>
searchVars == <<workspace, workspaceSearch, searched>>
pathVars == <<dynamic, paths, sizes>>
fieldVars == <<field, validated>>
rendererVars == <<constants, shapeVars, drawVars, registryVars>>
otherVars == <<rendererVars, searchVars, pathVars, fieldVars>>

vars == <<block, info, pc, calls, last, otherVars>>

(***************************** bounds ***************************************)
\* Longest input list of a block.
MaxInputs == 2
\* Most fields in one input's field row.
MaxFields == 1
\* Most icons on a block.
MaxIcons == 1
\* Most measure() calls in one behaviour.
MaxMeasures == 2

\* Widths that field.getSize() reports.
FieldWidths == {40}

(***************************** constants ************************************)
GRID_UNIT == 4
CORNER_RADIUS == 1 * GRID_UNIT
NOTCH_WIDTH == 9 * GRID_UNIT
NOTCH_HEIGHT == 2 * GRID_UNIT
NOTCH_OFFSET_LEFT == 3 * GRID_UNIT
EMPTY_INLINE_INPUT_PADDING == 4 * GRID_UNIT
EMPTY_INLINE_INPUT_HEIGHT == 8 * GRID_UNIT
\* Paddings of the base constant provider.
NO_PADDING == 0
MEDIUM_PADDING == 5
LARGE_PADDING == 10
\* Sizes of a value connection's shape, of the jagged teeth, of an icon and
\* of a field, as the Measurables record them.
SHAPE_WIDTH == 8
SHAPE_HEIGHT == 15
JAGGED_TEETH_WIDTH == 6
JAGGED_TEETH_HEIGHT == 12
ICON_SIZE == 17
FIELD_HEIGHT == 16

Max(a, b) == IF a >= b THEN a ELSE b

(***************************** the block ************************************)
INPUT_VALUE == "INPUT_VALUE"
NEXT_STATEMENT == "NEXT_STATEMENT"
DUMMY_INPUT == "DUMMY_INPUT"
InputTypes == {INPUT_VALUE, NEXT_STATEMENT, DUMMY_INPUT}

SeqsUpTo(S, n) == UNION {[1..k -> S] : k \in 0..n}

\* A Blockly.Input as the layout reads it: type, isVisible(), fieldRow (the
\* width of each field).
Inputs == [type : InputTypes, visible : BOOLEAN, fieldRow : SeqsUpTo(FieldWidths, MaxFields)]

\* An icon as the layout reads it.
Icons == [collapseHidden : BOOLEAN]

\* The block's logical structure read by a render pass.
Blocks ==
    [inputList : SeqsUpTo(Inputs, MaxInputs),
     icons : SeqsUpTo(Icons, MaxIcons),
     inputsInline : BOOLEAN,
     collapsed : BOOLEAN,
     outputConnection : BOOLEAN,
     previousConnection : BOOLEAN,
     nextConnection : BOOLEAN]

(***************************** Measurables **********************************)
\* Blockly.blockRendering.Measurable: isInput, width, height, type, xPos,
\* centerline.  centerline holds twice the source's value (row.yPos +
\* row.height / 2 is a half-integer), so that it stays an integer.
Measurable(type, isInput, width, height) ==
    [type |-> type, isInput |-> isInput, width |-> width, height |-> height,
     xPos |-> 0, centerline |-> 0]

\* The absent element (null / undefined in the source).
NullElem == Measurable("null", FALSE, 0, 0)

isField(elem) == elem.type = "field"
isIcon(elem) == elem.type = "icon"
isSpacer(elem) == elem.type = "between-row spacer" \/ elem.type = "in-row spacer"
isExternalInput(elem) == elem.type = "external value input"
isInlineInput(elem) == elem.type = "inline input"
isStatementInput(elem) == elem.type = "statement input"
isPreviousConnection(elem) == elem.type = "previous connection"
isNextConnection(elem) == elem.type = "next connection"
isJaggedEdge(elem) == elem.type = "jagged edge"

RoundCorner == Measurable("round corner", FALSE, CORNER_RADIUS, NOTCH_HEIGHT \div 2)
RightRoundCorner == Measurable("right round corner", FALSE, CORNER_RADIUS, NOTCH_HEIGHT \div 2)

InRowSpacer(width) == Measurable("in-row spacer", FALSE, width, 0)
Field(width) == Measurable("field", FALSE, width, FIELD_HEIGHT)
Icon == Measurable("icon", FALSE, ICON_SIZE, ICON_SIZE)
JaggedEdge == Measurable("jagged edge", FALSE, JAGGED_TEETH_WIDTH, JAGGED_TEETH_HEIGHT)
InlineInput ==
    Measurable("inline input", TRUE, SHAPE_WIDTH + EMPTY_INLINE_INPUT_PADDING,
               EMPTY_INLINE_INPUT_HEIGHT)
StatementInput ==
    Measurable("statement input", TRUE, NOTCH_OFFSET_LEFT + NOTCH_WIDTH, FIELD_HEIGHT)
ExternalValueInput == Measurable("external value input", TRUE, SHAPE_WIDTH, SHAPE_HEIGHT)
PreviousConnection == Measurable("previous connection", FALSE, NOTCH_WIDTH, NOTCH_HEIGHT)
NextConnection == Measurable("next connection", FALSE, NOTCH_WIDTH, NOTCH_HEIGHT)
OutputConnection == Measurable("output connection", FALSE, SHAPE_WIDTH, SHAPE_HEIGHT)

(***************************** Rows *****************************************)
Row(type) ==
    [type |-> type, elements |-> <<>>, height |-> 0, width |-> 0,
     minHeight |-> 0, minWidth |-> 0, widthWithConnectedBlocks |-> 0,
     yPos |-> 0, xPos |-> 0,
     hasExternalInput |-> FALSE, hasStatement |-> FALSE,
     hasInlineInput |-> FALSE, hasDummyInput |-> FALSE,
     hasJaggedEdge |-> FALSE, followsStatement |-> FALSE,
     statementEdge |-> 0, startY |-> 0]

TopRow == Row("top row")
BottomRow == Row("bottom row")
InputRow == Row("input row")
SpacerRow(height, width) ==
    [Row("between-row spacer") EXCEPT
        !.height = height, !.width = width,
        !.elements = <<InRowSpacer(width)>>]

\* TopRow.populate(block): left corner, previous connection, right corner
\* (never a square corner in the Zelos rows).
populateTop(row, b) ==
    [row EXCEPT
        !.elements = @ \o <<RoundCorner>>
            \o (IF b.previousConnection THEN <<PreviousConnection>> ELSE <<>>)
            \o <<RightRoundCorner>>,
        !.minHeight = MEDIUM_PADDING]

\* BottomRow.populate(block): left corner, next connection, right corner.
populateBottom(row, b) ==
    [row EXCEPT
        !.elements = @ \o <<RoundCorner>>
            \o (IF b.nextConnection THEN <<NextConnection>> ELSE <<>>)
            \o <<RightRoundCorner>>,
        !.minHeight = MEDIUM_PADDING]

RECURSIVE SumWidths(_)
SumWidths(elems) ==
    IF elems = <<>> THEN 0 ELSE Head(elems).width + SumWidths(Tail(elems))

RECURSIVE MaxHeight(_)
MaxHeight(elems) ==
    IF elems = <<>> THEN 0
    ELSE Max(IF isSpacer(Head(elems)) THEN 0 ELSE Head(elems).height,
             MaxHeight(Tail(elems)))

\* row.measure(): width is the sum of the elements' widths, height the
\* tallest non-spacer element; a spacer row keeps the size it was built with.
measureRow(row) ==
    IF row.type = "between-row spacer" THEN row
    ELSE [row EXCEPT
            !.width = Max(row.minWidth, SumWidths(row.elements)),
            !.height = Max(row.minHeight, MaxHeight(row.elements)),
            !.widthWithConnectedBlocks = Max(row.minWidth, SumWidths(row.elements))]

\* row.getLastInput(): the last input element of the row, as its index in
\* row.elements (0 stands for null).
RECURSIVE LastInputFrom(_, _)
LastInputFrom(elems, i) ==
    IF i = 0 THEN 0
    ELSE IF elems[i].isInput THEN i ELSE LastInputFrom(elems, i - 1)

getLastInput(row) == LastInputFrom(row.elements, Len(row.elements))

\* row.getLastSpacer(): the last spacer of the row, as its index in
\* row.elements (0 stands for null).
RECURSIVE LastSpacerFrom(_, _)
LastSpacerFrom(elems, i) ==
    IF i = 0 THEN 0
    ELSE IF isSpacer(elems[i]) THEN i ELSE LastSpacerFrom(elems, i - 1)

getLastSpacer(row) == LastSpacerFrom(row.elements, Len(row.elements))

(***************************** RenderInfo ***********************************)
\* References to the two rows every RenderInfo is constructed with.
TopRowRef == 1
BottomRowRef == 2

\* Mutant of RenderInfo: isInline ignores isCollapsed().
RenderInfoInlineWhenCollapsed(b) ==
    [outputConnection |-> IF b.outputConnection THEN <<OutputConnection>> ELSE <<>>,
     isInline |-> b.inputsInline,
     isCollapsed |-> b.collapsed,
     height |-> 0,
     widthWithChildren |-> 0,
     width |-> 0,
     statementEdge |-> 0,
     rows |-> <<>>,
     hiddenIcons |-> <<>>,
     topRow |-> TopRowRef,
     bottomRow |-> BottomRowRef,
     startX |-> 0,
     startY |-> 0,
     heap |-> <<TopRow, BottomRow>>]

\* new RenderInfo(block).  outputConnection is a sequence: empty for null.
RenderInfo(b) ==
    [outputConnection |-> IF b.outputConnection THEN <<OutputConnection>> ELSE <<>>,
     isInline |-> b.inputsInline /\ ~b.collapsed,
     isCollapsed |-> b.collapsed,
     height |-> 0,
     widthWithChildren |-> 0,
     width |-> 0,
     statementEdge |-> 0,
     rows |-> <<>>,
     hiddenIcons |-> <<>>,
     topRow |-> TopRowRef,
     bottomRow |-> BottomRowRef,
     startX |-> 0,
     startY |-> 0,
     heap |-> <<TopRow, BottomRow>>]

\* The row object behind the i-th entry of this.rows.
RowAt(inf, i) == inf.heap[inf.rows[i]]

\* this.rows.push(row) for a row object not yet referenced.
PushRow(inf, row) ==
    [inf EXCEPT !.heap = Append(@, row), !.rows = Append(@, Len(inf.heap) + 1)]

(***************************** createRows_ **********************************)
\* Mutant of shouldStartNewRow_: the first visible input is treated like every
\* other input.
shouldStartNewRow_FirstInputToo(inf, input, lastInput) ==
    IF input.type = NEXT_STATEMENT THEN TRUE
    ELSE IF input.type = INPUT_VALUE \/ input.type = DUMMY_INPUT THEN ~inf.isInline
    ELSE FALSE

\* shouldStartNewRow_(input, lastInput); lastInput is <<>> for undefined.
shouldStartNewRow_(inf, input, lastInput) ==
    IF lastInput = <<>> THEN FALSE
    ELSE IF input.type = NEXT_STATEMENT THEN TRUE
    ELSE IF input.type = INPUT_VALUE \/ input.type = DUMMY_INPUT THEN ~inf.isInline
    ELSE FALSE

\* addInput_(input, activeRow): the row with the input's element and flag.
addInput_(inf, input, activeRow) ==
    IF inf.isInline /\ input.type = INPUT_VALUE
    THEN [activeRow EXCEPT !.elements = Append(@, InlineInput),
                           !.hasInlineInput = TRUE]
    ELSE IF input.type = NEXT_STATEMENT
    THEN [activeRow EXCEPT !.elements = Append(@, StatementInput),
                           !.hasStatement = TRUE]
    ELSE IF input.type = INPUT_VALUE
    THEN [activeRow EXCEPT !.elements = Append(@, ExternalValueInput),
                           !.hasExternalInput = TRUE]
    ELSE IF input.type = DUMMY_INPUT
    THEN [activeRow EXCEPT !.hasDummyInput = TRUE]
    ELSE activeRow

\* The Field measurables of an input's field row.
FieldElems(input) == [j \in 1..Len(input.fieldRow) |-> Field(input.fieldRow[j])]

\* The icon loop of createRows_: state is <<hiddenIcons, activeRow>>.
RECURSIVE iconLoop(_, _, _, _)
iconLoop(inf, b, activeRow, i) ==
    IF i > Len(b.icons) THEN <<inf, activeRow>>
    ELSE IF inf.isCollapsed /\ b.icons[i].collapseHidden
    THEN iconLoop([inf EXCEPT !.hiddenIcons = Append(@, Icon)], b, activeRow, i + 1)
    ELSE iconLoop(inf, b, [activeRow EXCEPT !.elements = Append(@, Icon)], i + 1)

\* The input loop of createRows_.
RECURSIVE inputLoop(_, _, _, _, _)
inputLoop(inf, b, activeRow, lastInput, i) ==
    IF i > Len(b.inputList) THEN <<inf, activeRow>>
    ELSE LET input == b.inputList[i] IN
      IF ~input.visible THEN inputLoop(inf, b, activeRow, lastInput, i + 1)
      ELSE LET startNew == shouldStartNewRow_(inf, input, lastInput)
               inf1 == IF startNew THEN PushRow(inf, activeRow) ELSE inf
               row1 == IF startNew THEN InputRow ELSE activeRow
               row2 == [row1 EXCEPT !.elements = @ \o FieldElems(input)]
               row3 == addInput_(inf, input, row2)
           IN inputLoop(inf1, b, row3, <<input>>, i + 1)

\* Mutant of createRows_: the active row is pushed even when it is empty.
createRows_AlwaysPushActiveRow(inf, b) ==
    LET inf1 == [inf EXCEPT !.heap[inf.topRow] = populateTop(@, b),
                            !.rows = Append(@, inf.topRow)]
        ic == iconLoop(inf1, b, InputRow, 1)
        lp == inputLoop(ic[1], b, ic[2], <<>>, 1)
        inf2 == lp[1]
        row2 == IF inf2.isCollapsed
                THEN [lp[2] EXCEPT !.hasJaggedEdge = TRUE,
                                   !.elements = Append(@, JaggedEdge)]
                ELSE lp[2]
        inf3 == PushRow(inf2, row2)
    IN [inf3 EXCEPT !.heap[inf3.bottomRow] = populateBottom(@, b),
                    !.rows = Append(@, inf3.bottomRow)]

createRows_(inf, b) ==
    LET inf1 == [inf EXCEPT !.heap[inf.topRow] = populateTop(@, b),
                            !.rows = Append(@, inf.topRow)]
        ic == iconLoop(inf1, b, InputRow, 1)
        lp == inputLoop(ic[1], b, ic[2], <<>>, 1)
        inf2 == lp[1]
        row2 == IF inf2.isCollapsed
                THEN [lp[2] EXCEPT !.hasJaggedEdge = TRUE,
                                   !.elements = Append(@, JaggedEdge)]
                ELSE lp[2]
        inf3 == IF Len(row2.elements) > 0 THEN PushRow(inf2, row2) ELSE inf2
    IN [inf3 EXCEPT !.heap[inf3.bottomRow] = populateBottom(@, b),
                    !.rows = Append(@, inf3.bottomRow)]

(***************************** addElemSpacing_ ******************************)
\* Mutant of getInRowSpacing_: the padding after an input does not depend on
\* whether an element follows it.
getInRowSpacing_AfterAnyInput(prev, next) ==
    IF prev # NullElem /\ prev.isInput
    THEN IF isExternalInput(prev) THEN NO_PADDING
         ELSE IF isInlineInput(prev) THEN LARGE_PADDING
         ELSE IF isStatementInput(prev) THEN NO_PADDING
         ELSE MEDIUM_PADDING
    ELSE MEDIUM_PADDING

\* getInRowSpacing_(prev, next); NullElem stands for null / undefined.
getInRowSpacing_(prev, next) ==
    IF prev # NullElem /\ prev.isInput /\ next = NullElem
    THEN IF isExternalInput(prev) THEN NO_PADDING
         ELSE IF isInlineInput(prev) THEN LARGE_PADDING
         ELSE IF isStatementInput(prev) THEN NO_PADDING
         ELSE MEDIUM_PADDING
    ELSE MEDIUM_PADDING

\* oldElems[e] of the source, undefined past the end.
ElemAt(elems, e) == IF e >= 1 /\ e <= Len(elems) THEN elems[e] ELSE NullElem

\* The inner loop of addElemSpacing_: every old element followed by a spacer.
RECURSIVE spaceElems(_, _)
spaceElems(oldElems, e) ==
    IF e > Len(oldElems) THEN <<>>
    ELSE <<oldElems[e],
           InRowSpacer(getInRowSpacing_(oldElems[e], ElemAt(oldElems, e + 1)))>>
         \o spaceElems(oldElems, e + 1)

\* Mutant of spaceRow: the top row and the bottom row get a leading spacer
\* too.
spaceRowLeadingEverywhere(row) ==
    LET oldElems == row.elements IN
    [row EXCEPT !.elements =
        <<InRowSpacer(getInRowSpacing_(NullElem, ElemAt(oldElems, 1)))>>
        \o spaceElems(oldElems, 1)]

\* The body of the loop of addElemSpacing_ for one row.
spaceRow(row) ==
    LET oldElems == row.elements IN
    [row EXCEPT !.elements =
        (IF row.type # "top row" /\ row.type # "bottom row"
         THEN <<InRowSpacer(getInRowSpacing_(NullElem, ElemAt(oldElems, 1)))>>
         ELSE <<>>)
        \o spaceElems(oldElems, 1)]

RECURSIVE addElemSpacingLoop(_, _)
addElemSpacingLoop(inf, i) ==
    IF i > Len(inf.rows) THEN inf
    ELSE addElemSpacingLoop([inf EXCEPT !.heap[inf.rows[i]] = spaceRow(@)], i + 1)

addElemSpacing_(inf) == addElemSpacingLoop(inf, 1)

(***************************** computeBounds_ *******************************)
\* Mutant of innerWidthOf: the statement input's width is not taken off.
innerWidthOfWholeRow(row) == row.width

\* innerWidth of a statement row: row.width - statementInput.width.
innerWidthOf(row) == row.width - row.elements[getLastInput(row)].width

\* The first loop of computeBounds_; acc holds widestStatementRowFields,
\* blockWidth and widestRowWithConnectedBlocks.
RECURSIVE boundsLoop(_, _, _)
boundsLoop(inf, acc, i) ==
    IF i > Len(inf.rows) THEN <<inf, acc>>
    ELSE LET id == inf.rows[i]
             row == measureRow(inf.heap[id])
             innerWidth == innerWidthOf(row)
         IN boundsLoop(
              [inf EXCEPT !.heap[id] = row],
              [widestStatementRowFields |->
                   IF row.hasStatement
                   THEN Max(acc.widestStatementRowFields, innerWidth)
                   ELSE acc.widestStatementRowFields,
               blockWidth |-> Max(acc.blockWidth, row.width),
               widestRowWithConnectedBlocks |->
                   Max(acc.widestRowWithConnectedBlocks, row.widthWithConnectedBlocks)],
              i + 1)

\* The second loop of computeBounds_.
RECURSIVE statementEdgeLoop(_, _)
statementEdgeLoop(inf, i) ==
    IF i > Len(inf.rows) THEN inf
    ELSE statementEdgeLoop(
           IF RowAt(inf, i).hasStatement
           THEN [inf EXCEPT !.heap[inf.rows[i]].statementEdge = inf.statementEdge]
           ELSE inf,
           i + 1)

\* Mutant of computeBounds_: the output connection's width is not added to
\* this.width.
computeBounds_WidthWithoutOutput(inf) ==
    LET lp == boundsLoop(inf,
                  [widestStatementRowFields |-> 0, blockWidth |-> 0,
                   widestRowWithConnectedBlocks |-> 0], 1)
        acc == lp[2]
        inf1 == [lp[1] EXCEPT !.statementEdge = acc.widestStatementRowFields,
                              !.width = acc.blockWidth]
        inf2 == statementEdgeLoop(inf1, 1)
        inf3 == [inf2 EXCEPT !.widthWithChildren =
                     Max(acc.blockWidth, acc.widestRowWithConnectedBlocks)]
    IN IF inf3.outputConnection # <<>>
       THEN [inf3 EXCEPT !.startX = inf3.outputConnection[1].width,
                         !.widthWithChildren = @ + inf3.outputConnection[1].width]
       ELSE inf3

computeBounds_(inf) ==
    LET lp == boundsLoop(inf,
                  [widestStatementRowFields |-> 0, blockWidth |-> 0,
                   widestRowWithConnectedBlocks |-> 0], 1)
        acc == lp[2]
        inf1 == [lp[1] EXCEPT !.statementEdge = acc.widestStatementRowFields,
                              !.width = acc.blockWidth]
        inf2 == statementEdgeLoop(inf1, 1)
        inf3 == [inf2 EXCEPT !.widthWithChildren =
                     Max(acc.blockWidth, acc.widestRowWithConnectedBlocks)]
    IN IF inf3.outputConnection # <<>>
       THEN [inf3 EXCEPT !.startX = inf3.outputConnection[1].width,
                         !.width = @ + inf3.outputConnection[1].width,
                         !.widthWithChildren = @ + inf3.outputConnection[1].width]
       ELSE inf3

(***************************** alignRowElements_ ****************************)
\* Mutant of addAlignmentPadding_: the spacer grows but row.width is not
\* updated.
addAlignmentPadding_SpacerOnly(row, missingSpace) ==
    LET lastSpacer == getLastSpacer(row) IN
    IF lastSpacer # 0
    THEN [row EXCEPT !.elements[lastSpacer].width = @ + missingSpace]
    ELSE row

addAlignmentPadding_(row, missingSpace) ==
    LET lastSpacer == getLastSpacer(row) IN
    IF lastSpacer # 0
    THEN [row EXCEPT !.elements[lastSpacer].width = @ + missingSpace,
                     !.width = @ + missingSpace]
    ELSE row

\* How much alignRowElements_ finds missing in a row.
missingSpaceOf(inf, row) ==
    IF row.hasStatement
    THEN (inf.statementEdge - inf.startX)
         - (row.width - row.elements[getLastInput(row)].width)
    ELSE (inf.width - inf.startX) - row.width

\* Mutant of alignRow: rows with an inline input are aligned too.
alignRowInlineToo(inf, row) ==
    LET missingSpace == missingSpaceOf(inf, row) IN
    IF missingSpace # 0 THEN addAlignmentPadding_(row, missingSpace) ELSE row

\* The body of the loop of alignRowElements_ for one row.
alignRow(inf, row) ==
    IF ~row.hasInlineInput
    THEN LET missingSpace == missingSpaceOf(inf, row) IN
         IF missingSpace # 0 THEN addAlignmentPadding_(row, missingSpace) ELSE row
    ELSE row

RECURSIVE alignLoop(_, _)
alignLoop(inf, i) ==
    IF i > Len(inf.rows) THEN inf
    ELSE alignLoop([inf EXCEPT !.heap[inf.rows[i]] = alignRow(inf, @)], i + 1)

alignRowElements_(inf) == alignLoop(inf, 1)

(***************************** addRowSpacing_ *******************************)
getSpacerRowWidth_(inf, prev, next) == inf.width - inf.startX

getSpacerRowHeight_(inf, prev, next) == MEDIUM_PADDING

\* Mutant of makeSpacerRow_: followsStatement is taken from the row after
\* the spacer.
makeSpacerRow_BeforeStatement(inf, prev, next) ==
    LET spacer == SpacerRow(getSpacerRowHeight_(inf, prev, next),
                            getSpacerRowWidth_(inf, prev, next))
    IN IF next.hasStatement THEN [spacer EXCEPT !.followsStatement = TRUE] ELSE spacer

makeSpacerRow_(inf, prev, next) ==
    LET spacer == SpacerRow(getSpacerRowHeight_(inf, prev, next),
                            getSpacerRowWidth_(inf, prev, next))
    IN IF prev.hasStatement THEN [spacer EXCEPT !.followsStatement = TRUE] ELSE spacer

RECURSIVE rowSpacingLoop(_, _, _)
rowSpacingLoop(inf, oldRows, r) ==
    IF r > Len(oldRows) THEN inf
    ELSE LET inf1 == [inf EXCEPT !.rows = Append(@, oldRows[r])] IN
         rowSpacingLoop(
           IF r # Len(oldRows)
           THEN PushRow(inf1, makeSpacerRow_(inf1, inf1.heap[oldRows[r]],
                                             inf1.heap[oldRows[r + 1]]))
           ELSE inf1,
           oldRows, r + 1)

addRowSpacing_(inf) == rowSpacingLoop([inf EXCEPT !.rows = <<>>], inf.rows, 1)

(***************************** finalize_ ************************************)
\* getElemCenterline_(row, elem), doubled: 2 * (row.yPos + row.height / 2).
getElemCenterline_(row, elem) == 2 * row.yPos + row.height

\* Mutant of placeElems: the cursor advances before xPos is stored.
RECURSIVE placeElemsCursorFirst(_, _, _, _)
placeElemsCursorFirst(row, elems, j, xCursor) ==
    IF j > Len(elems) THEN elems
    ELSE placeElemsCursorFirst(row,
           [elems EXCEPT ![j].xPos = xCursor + elems[j].width,
                         ![j].centerline = getElemCenterline_(row, elems[j])],
           j + 1, xCursor + elems[j].width)

\* The inner loop of finalize_: xPos and centerline of the elements from j on.
RECURSIVE placeElems(_, _, _, _)
placeElems(row, elems, j, xCursor) ==
    IF j > Len(elems) THEN elems
    ELSE placeElems(row,
           [elems EXCEPT ![j].xPos = xCursor,
                         ![j].centerline = getElemCenterline_(row, elems[j])],
           j + 1, xCursor + elems[j].width)

\* Mutant of finalizeRow: yPos is stored after the cursor has advanced.
finalizeRowCursorFirst(inf, row, yCursor) ==
    LET row0 == [row EXCEPT !.yPos = yCursor + row.height, !.xPos = inf.startX]
    IN [row0 EXCEPT !.elements = placeElems(row0, @, 1, row0.xPos)]

\* The body of the loop of finalize_ for one row: its yPos and xPos, and the
\* positions of its elements.
finalizeRow(inf, row, yCursor) ==
    LET row0 == [row EXCEPT !.yPos = yCursor, !.xPos = inf.startX]
    IN [row0 EXCEPT !.elements = placeElems(row0, @, 1, row0.xPos)]

\* The loop of finalize_; acc holds widestRowWithConnectedBlocks and yCursor.
RECURSIVE finalizeLoop(_, _, _)
finalizeLoop(inf, acc, i) ==
    IF i > Len(inf.rows) THEN <<inf, acc>>
    ELSE LET id == inf.rows[i]
             row == finalizeRow(inf, inf.heap[id], acc.yCursor)
         IN finalizeLoop(
              [inf EXCEPT !.heap[id] = row],
              [widestRowWithConnectedBlocks |->
                   Max(acc.widestRowWithConnectedBlocks, row.widthWithConnectedBlocks),
               yCursor |-> acc.yCursor + row.height],
              i + 1)

\* Mutant of finalize_: widthWithChildren leaves out startX.
finalize_WithoutStartX(inf) ==
    LET lp == finalizeLoop(inf,
                  [widestRowWithConnectedBlocks |-> 0, yCursor |-> 0], 1)
    IN [lp[1] EXCEPT
          !.widthWithChildren = lp[2].widestRowWithConnectedBlocks,
          !.height = lp[2].yCursor,
          !.startY = lp[1].heap[lp[1].topRow].startY]

finalize_(inf) ==
    LET lp == finalizeLoop(inf,
                  [widestRowWithConnectedBlocks |-> 0, yCursor |-> 0], 1)
    IN [lp[1] EXCEPT
          !.widthWithChildren = lp[2].widestRowWithConnectedBlocks + lp[1].startX,
          !.height = lp[2].yCursor,
          !.startY = lp[1].heap[lp[1].topRow].startY]

\* measure() as one function of a RenderInfo.
measure(inf, b) ==
    finalize_(addRowSpacing_(alignRowElements_(computeBounds_(
        addElemSpacing_(createRows_(inf, b))))))

\* The row geometry a render pass hands on: the rows in order with their
\* elements, and the block-level sizes.
Geometry(inf) ==
    [rows |-> [i \in 1..Len(inf.rows) |-> RowAt(inf, i)],
     width |-> inf.width, height |-> inf.height,
     widthWithChildren |-> inf.widthWithChildren,
     startX |-> inf.startX, startY |-> inf.startY,
     statementEdge |-> inf.statementEdge]

(***************************** ConstantProvider ******************************)
\* Connection types: Blockly.INPUT_VALUE, OUTPUT_VALUE, NEXT_STATEMENT and
\* PREVIOUS_STATEMENT; DUMMY_INPUT is a type no connection of a block has.
OUTPUT_VALUE == "OUTPUT_VALUE"
PREVIOUS_STATEMENT == "PREVIOUS_STATEMENT"
ConnectionTypes ==
    {INPUT_VALUE, OUTPUT_VALUE, NEXT_STATEMENT, PREVIOUS_STATEMENT, DUMMY_INPUT}

\* Longest check list of a connection.
MaxChecks == 2

\* connection.getCheck(): null (the empty sequence here) or an array of
\* type names (a one-element sequence holding the array).
Checks == {<<>>} \cup {<<list>> : list \in SeqsUpTo({"Boolean", "Number", "String"}, MaxChecks)}

Connections == [type : ConnectionTypes, check : Checks]

\* A shape descriptor, named after the factory that made it.
Shape(name, isDynamic) == [name |-> name, isDynamic |-> isDynamic]

makeHexagonal == Shape("hexagonal", TRUE)
makeRounded == Shape("rounded", TRUE)
makeNotch == Shape("notch", FALSE)

\* The shape tables of the provider after init().
init == [HEXAGONAL |-> makeHexagonal, ROUNDED |-> makeRounded, NOTCH |-> makeNotch]

\* What a call gave back: a returned value or a thrown Error.
Return(value) == [threw |-> FALSE, value |-> value]
Throw(value) == [threw |-> TRUE, value |-> value]

\* Array.prototype.indexOf: the 0-based index of the first occurrence, or -1.
RECURSIVE indexOfFrom(_, _, _)
indexOfFrom(list, x, i) ==
    IF i > Len(list) THEN -1
    ELSE IF list[i] = x THEN i - 1 ELSE indexOfFrom(list, x, i + 1)

indexOf(list, x) == indexOfFrom(list, x, 1)

\* Mutant of shapeFor: the 'Number' check is tested before the 'Boolean' one.
shapeForNumberFirst(provider, conn) ==
    LET checks == conn.check IN
    IF conn.type \in {INPUT_VALUE, OUTPUT_VALUE}
    THEN IF checks # <<>> /\ indexOf(checks[1], "Number") # -1
         THEN Return(provider.ROUNDED)
         ELSE IF checks # <<>> /\ indexOf(checks[1], "Boolean") # -1
         THEN Return(provider.HEXAGONAL)
         ELSE IF checks # <<>> /\ indexOf(checks[1], "String") # -1
         THEN Return(provider.ROUNDED)
         ELSE Return(provider.ROUNDED)
    ELSE IF conn.type \in {PREVIOUS_STATEMENT, NEXT_STATEMENT}
    THEN Return(provider.NOTCH)
    ELSE Throw(Shape("Error: Unknown type", FALSE))

\* shapeFor(connection) of the Zelos provider.
shapeFor(provider, conn) ==
    LET checks == conn.check IN
    IF conn.type \in {INPUT_VALUE, OUTPUT_VALUE}
    THEN IF checks # <<>> /\ indexOf(checks[1], "Boolean") # -1
         THEN Return(provider.HEXAGONAL)
         ELSE IF checks # <<>> /\ indexOf(checks[1], "Number") # -1
         THEN Return(provider.ROUNDED)
         ELSE IF checks # <<>> /\ indexOf(checks[1], "String") # -1
         THEN Return(provider.ROUNDED)
         ELSE Return(provider.ROUNDED)
    ELSE IF conn.type \in {PREVIOUS_STATEMENT, NEXT_STATEMENT}
    THEN Return(provider.NOTCH)
    ELSE Throw(Shape("Error: Unknown type", FALSE))

\* No shapeFor call yet.
NoShape == Return(Shape("none", FALSE))
NoConnection == [type |-> DUMMY_INPUT, check |-> <<>>]

(***************************** Drawer ***************************************)
\* The words of a Measurable's type string; String.prototype.indexOf is
\* computed over them.
TypeWords(type) ==
    CASE type = "round corner" -> <<"round", "corner">>
      [] type = "right round corner" -> <<"right", "round", "corner">>
      [] type = "round corner left" -> <<"round", "corner", "left">>
      [] type = "round corner right" -> <<"round", "corner", "right">>
      [] type = "square corner left" -> <<"square", "corner", "left">>
      [] type = "square corner right" -> <<"square", "corner", "right">>
      [] OTHER -> <<type>>

\* Whether needle occurs in hay at the 0-based offset k.
OccursAt(hay, needle, k) ==
    /\ k + Len(needle) <= Len(hay)
    /\ \A j \in 1..Len(needle) : hay[k + j] = needle[j]

\* type.indexOf(needle): the first offset at which needle occurs, or -1.
RECURSIVE typeIndexOfFrom(_, _, _)
typeIndexOfFrom(hay, needle, k) ==
    IF k + Len(needle) > Len(hay) THEN -1
    ELSE IF OccursAt(hay, needle, k) THEN k
    ELSE typeIndexOfFrom(hay, needle, k + 1)

typeIndexOf(type, needle) == typeIndexOfFrom(TypeWords(type), needle, 0)

isCorner(elem) == typeIndexOf(elem.type, <<"corner">>) > -1
isRoundedCorner(elem) == typeIndexOf(elem.type, <<"round", "corner">>) = 0
isSquareCorner(elem) == typeIndexOf(elem.type, <<"square", "corner">>) = 0
isRightCorner(elem) == typeIndexOf(elem.type, <<"corner", "right">>) > -1

\* The corner Measurables of the rows a drawer walks: the Zelos corners, or
\* the round or square corners of the base rows.
CornerStyles == {"zelos", "round", "square"}

LeftCornerType(style) ==
    CASE style = "zelos" -> "round corner"
      [] style = "round" -> "round corner left"
      [] style = "square" -> "square corner left"

RightCornerType(style) ==
    CASE style = "zelos" -> "right round corner"
      [] style = "round" -> "round corner right"
      [] style = "square" -> "square corner right"

\* The elements of a top or bottom row with its two corners of the style.
StyledElems(elems, style) ==
    [j \in 1..Len(elems) |->
        IF elems[j].type = "round corner"
        THEN [elems[j] EXCEPT !.type = LeftCornerType(style)]
        ELSE IF elems[j].type = "right round corner"
        THEN [elems[j] EXCEPT !.type = RightCornerType(style)]
        ELSE elems[j]]

\* The measured RenderInfo with the corners of its top and bottom row of the
\* style.
WithCorners(inf, style) ==
    [inf EXCEPT !.heap[inf.topRow].elements = StyledElems(@, style),
                !.heap[inf.bottomRow].elements = StyledElems(@, style)]

\* One fragment appended to a path: its name, its arguments, and the row
\* ("top", "bottom") and index of the element it was appended for (0 when
\* it belongs to no element).
Frag(path, a, b, row, elem) ==
    [path |-> path, a |-> a, b |-> b, row |-> row, elem |-> elem]

\* bottomRow.overhangY.
overhangY(row) == 0

\* A Drawer after construction.
Drawer(RTL) == [RTL |-> RTL, outlinePath_ |-> <<>>, threw |-> FALSE]

\* The body of drawTop_'s loop: the fragments appended for one element.
topElem(row, elem, i) ==
    IF isRoundedCorner(elem) /\ ~isRightCorner(elem)
    THEN <<Frag("OUTSIDE_CORNERS.topLeft", 0, 0, "top", i)>>
    ELSE IF isRoundedCorner(elem) /\ isRightCorner(elem)
    THEN <<Frag("OUTSIDE_CORNERS.topRight", 0, 0, "top", i)>>
    ELSE IF elem.type = "previous connection"
    THEN <<Frag("shape.pathLeft", 0, 0, "top", i)>>
    ELSE IF elem.type = "hat"
    THEN <<Frag("START_HAT.path", 0, 0, "top", i)>>
    ELSE IF isSpacer(elem)
    THEN <<Frag("h", elem.width, 0, "top", i)>>
    ELSE <<>>

RECURSIVE topLoop(_, _, _)
topLoop(row, path, i) ==
    IF i > Len(row.elements) THEN path
    ELSE topLoop(row, path \o topElem(row, row.elements[i], i), i + 1)

\* Mutant of drawTop_: in RTL the top row is walked over mirrored widths.
drawTop_MirroredInRTL(d, inf) ==
    LET topRow == inf.heap[inf.topRow]
        path1 == Append(d.outlinePath_,
                        Frag("moveBy", IF d.RTL THEN -topRow.xPos ELSE topRow.xPos,
                             inf.startY, "top", 0))
        path2 == topLoop(topRow, path1, 1)
    IN [d EXCEPT !.outlinePath_ = Append(path2, Frag("v", topRow.height, 0, "top", 0))]

\* drawTop_(): moveBy to the row start, the fragments of the top row's
\* elements, then the vertical line down the row.
drawTop_(d, inf) ==
    LET topRow == inf.heap[inf.topRow]
        path1 == Append(d.outlinePath_,
                        Frag("moveBy", topRow.xPos, inf.startY, "top", 0))
        path2 == topLoop(topRow, path1, 1)
    IN [d EXCEPT !.outlinePath_ = Append(path2, Frag("v", topRow.height, 0, "top", 0))]

\* Mutant of bottomElem: every square corner draws the line to the row start.
bottomElemAnySquareCorner(row, elem, i) ==
    IF isNextConnection(elem)
    THEN <<Frag("shape.pathRight", 0, 0, "bottom", i)>>
    ELSE IF isSquareCorner(elem)
    THEN <<Frag("H", row.xPos, 0, "bottom", i)>>
    ELSE IF isRoundedCorner(elem) /\ ~isRightCorner(elem)
    THEN <<Frag("OUTSIDE_CORNERS.bottomLeft", 0, 0, "bottom", i)>>
    ELSE IF isRoundedCorner(elem) /\ isRightCorner(elem)
    THEN <<Frag("OUTSIDE_CORNERS.bottomRight", 0, 0, "bottom", i)>>
    ELSE IF isSpacer(elem)
    THEN <<Frag("h", elem.width * (-1), 0, "bottom", i)>>
    ELSE <<>>

\* The body of drawBottom_'s loop: the fragments appended for one element.
bottomElem(row, elem, i) ==
    IF isNextConnection(elem)
    THEN <<Frag("shape.pathRight", 0, 0, "bottom", i)>>
    ELSE IF elem.type = "square corner left"
    THEN <<Frag("H", row.xPos, 0, "bottom", i)>>
    ELSE IF isRoundedCorner(elem) /\ ~isRightCorner(elem)
    THEN <<Frag("OUTSIDE_CORNERS.bottomLeft", 0, 0, "bottom", i)>>
    ELSE IF isRoundedCorner(elem) /\ isRightCorner(elem)
    THEN <<Frag("OUTSIDE_CORNERS.bottomRight", 0, 0, "bottom", i)>>
    ELSE IF isSpacer(elem)
    THEN <<Frag("h", elem.width * (-1), 0, "bottom", i)>>
    ELSE <<>>

\* Mutant of bottomLoop: the bottom row is walked first element first.
RECURSIVE bottomLoopForward(_, _, _)
bottomLoopForward(row, path, i) ==
    IF i < 1 THEN path
    ELSE LET k == Len(row.elements) + 1 - i IN
         bottomLoopForward(row, path \o bottomElem(row, row.elements[k], k), i - 1)

\* drawBottom_'s loop, from the last element down to the first.
RECURSIVE bottomLoop(_, _, _)
bottomLoop(row, path, i) ==
    IF i < 1 THEN path
    ELSE bottomLoop(row, path \o bottomElem(row, row.elements[i], i), i - 1)

\* drawBottom_(): the vertical line down the bottom row, then the fragments
\* of its elements.
drawBottom_(d, inf) ==
    LET bottomRow == inf.heap[inf.bottomRow]
        path1 == Append(d.outlinePath_,
                        Frag("v", bottomRow.height - overhangY(bottomRow), 0, "bottom", 0))
    IN [d EXCEPT !.outlinePath_ = bottomLoop(bottomRow, path1, Len(bottomRow.elements))]

(***************************** Highlighter **********************************)
\* highlightConstants_.OFFSET is 0.5: the arguments of highlight steps hold
\* twice the source's value.
HIGHLIGHT_OFFSET_DOUBLED == 1

\* A Highlighter constructed over the path object's highlight steps.
Highlighter(steps) == [steps_ |-> steps]

\* Mutant of drawJaggedEdge_: the steps are appended in LTR too.
drawJaggedEdge_InLTRToo(h, RTL, row) ==
    [h EXCEPT !.steps_ = @ \o
        <<Frag("H", 2 * row.width - HIGHLIGHT_OFFSET_DOUBLED, 0, "input", 0),
          Frag("JAGGED_TEETH.pathLeft", 0, 0, "input", 0),
          Frag("v", 2 * row.height - 2 * JAGGED_TEETH_HEIGHT
                    - HIGHLIGHT_OFFSET_DOUBLED, 0, "input", 0)>>]

\* Highlighter.drawJaggedEdge_(row).
drawJaggedEdge_(h, RTL, row) ==
    IF RTL
    THEN [h EXCEPT !.steps_ = @ \o
            <<Frag("H", 2 * row.width - HIGHLIGHT_OFFSET_DOUBLED, 0, "input", 0),
              Frag("JAGGED_TEETH.pathLeft", 0, 0, "input", 0),
              Frag("v", 2 * row.height - 2 * JAGGED_TEETH_HEIGHT
                        - HIGHLIGHT_OFFSET_DOUBLED, 0, "input", 0)>>]
    ELSE h

(***************************** registry *************************************)
\* Type and name strings handed to the registry, and registry classes.
\* FieldClass has a fromJson function, the renderer classes have none.
RegistryTypes == {"renderer", "Renderer", "field"}
RegistryNames == {"geras", "Geras", "zelos", "constructor", " "}
RegistryClasses == {"GerasRenderer", "ZelosRenderer", "FieldClass"}

\* String.prototype.toLowerCase and String.prototype.trim on those strings.
toLowerCase(str) ==
    CASE str = "Renderer" -> "renderer"
      [] str = "Geras" -> "geras"
      [] OTHER -> str

trim(str) == IF str = " " THEN "" ELSE str

LowerTypes == {toLowerCase(t) : t \in RegistryTypes}
LowerNames == {toLowerCase(n) : n \in RegistryNames}

\* JavaScript values that are not registry classes.
Undefined == "undefined"
Null == "null"
\* The members every plain object inherits from Object.prototype, among the
\* names above, and the value of each.
ObjectPrototypeKeys == {"constructor"}
ObjectPrototypeValue(key) == "function Object"

Truthy(value) == value \notin {Undefined, Null}

\* typeMap_ = {}: no type registry created, no name in any of them.  A type
\* registry is a plain object too: created tells whether typeMap_[type]
\* exists, names[name] is its own property of that name, or Undefined.
EmptyRegistry == [created |-> FALSE, names |-> [n \in LowerNames |-> Undefined]]
EmptyTypeMap == [t \in LowerTypes |-> EmptyRegistry]

\* typeRegistry[name]: the own property, else the inherited one.
GetName(typeRegistry, name) ==
    IF typeRegistry.names[name] # Undefined THEN typeRegistry.names[name]
    ELSE IF name \in ObjectPrototypeKeys THEN ObjectPrototypeValue(name)
    ELSE Undefined

\* A call of the registry and what it gave back.
Call(op, type, name, class, result) ==
    [op |-> op, type |-> type, name |-> name, class |-> class,
     threw |-> result.threw, value |-> result.value]

NoCall == Call("none", "", "", Undefined, Return(Undefined))

\* validate_(type, registryClass): the error it throws, or Undefined.
validate_(type, registryClass) ==
    IF type = "field"
    THEN IF ~Truthy(registryClass) \/ registryClass # "FieldClass"
         THEN "Error: must have a fromJson function"
         ELSE Undefined
    ELSE IF type = "toolbox"
    THEN IF ~Truthy(registryClass) THEN "Error: must exist" ELSE Undefined
    ELSE Undefined

\* register(type, name, registryClass): the new typeMap_ and the result.
register(map, type0, name0, registryClass) ==
    IF trim(type0) = "" THEN <<map, Throw("Error: Invalid type")>>
    ELSE IF trim(name0) = "" THEN <<map, Throw("Error: Invalid name")>>
    ELSE LET type == toLowerCase(type0)
             name == toLowerCase(name0)
             map1 == [map EXCEPT ![type].created = TRUE]
         IN IF Truthy(GetName(map1[type], name))
            THEN <<map1, Throw("Error: already registered")>>
            ELSE IF validate_(type, registryClass) # Undefined
            THEN <<map1, Throw(validate_(type, registryClass))>>
            ELSE <<[map1 EXCEPT ![type].names[name] = registryClass],
                   Return(Undefined)>>

\* unregister(type, name).
unregister(map, type0, name0) ==
    LET type == toLowerCase(type0)
        name == toLowerCase(name0)
    IN IF ~map[type].created THEN <<map, Return(Undefined)>>
       ELSE IF ~Truthy(GetName(map[type], name)) THEN <<map, Return(Undefined)>>
       ELSE <<[map EXCEPT ![type].names[name] = Undefined], Return(Undefined)>>

\* getClass(type, name).
getClass(map, type0, name0) ==
    LET type == toLowerCase(type0)
        name == toLowerCase(name0)
    IN IF ~map[type].created THEN Return(Null)
       ELSE IF ~Truthy(GetName(map[type], name)) THEN Return(Null)
       ELSE Return(GetName(map[type], name))

(***************************** Blockly.Search *******************************)
MaxBlocks == 2
MaxChars == 2

\* Strings are sequences of characters; a block is read through toString().
Chars == {"a", "b"}
Strings == SeqsUpTo(Chars, MaxChars)

\* The workspace as Search reads it: getAllBlocks() in order, each block by
\* its toString(), and the blocks (by position) whose highlight is on.
Workspace(blocks) == [blocks |-> blocks, highlighted |-> {}]
Workspaces == {Workspace(blocks) : blocks \in SeqsUpTo(Strings, MaxBlocks)}
NoWorkspace == Workspace(<<>>)

\* new Blockly.Search(workspace). Blocks are held by their position in the
\* workspace, 0 is null; highlightedIndex_ is undefined (-1) until the first
\* highlight; countSpan_ is <<current, total>> or <<>> for the empty text.
NewSearch ==
    [searchResults_ |-> <<>>, highlightedBlock_ |-> 0,
     highlightedIndex_ |-> -1, countSpan_ |-> <<>>]

\* What a call of search() gave back: a list, undefined, or a TypeError.
SearchCall(term, kind, value) == [term |-> term, kind |-> kind, value |-> value]
NoSearch == SearchCall(<<>>, "none", <<>>)

setHighlighted(ws, b, on) ==
    [ws EXCEPT !.highlighted = IF on THEN @ \cup {b} ELSE @ \ {b}]

setResultCount_(s, current, total) ==
    [s EXCEPT !.countSpan_ = IF total # 0 THEN <<current, total>> ELSE <<>>]

searchBlock_(blockStr, term) == typeIndexOfFrom(blockStr, term, 0) > -1

RECURSIVE searchLoop(_, _, _)
searchLoop(blocks, term, i) ==
    IF i > Len(blocks) THEN <<>>
    ELSE (IF searchBlock_(blocks[i], term) THEN <<i>> ELSE <<>>)
         \o searchLoop(blocks, term, i + 1)

\* index is 0-based. searchResults_[index] is undefined past the end, and
\* undefined.setHighlighted(true) throws a TypeError.
higlightSearchIndex_(ws, s, index) ==
    LET ws1 == IF s.highlightedBlock_ # 0
               THEN setHighlighted(ws, s.highlightedBlock_, FALSE) ELSE ws
    IN IF index + 1 > Len(s.searchResults_)
       THEN [workspace |-> ws1, search |-> s, threw |-> TRUE]
       ELSE LET b == s.searchResults_[index + 1] IN
            [workspace |-> setHighlighted(ws1, b, TRUE),
             search |-> setResultCount_(
                          [s EXCEPT !.highlightedBlock_ = b,
                                    !.highlightedIndex_ = index],
                          index + 1, Len(s.searchResults_)),
             threw |-> FALSE]

search(ws, s, term) ==
    LET cleared == s.highlightedBlock_ # 0
        ws1 == IF cleared THEN setHighlighted(ws, s.highlightedBlock_, FALSE) ELSE ws
        s1 == IF cleared THEN [s EXCEPT !.highlightedBlock_ = 0] ELSE s
    IN IF term = <<>>
       THEN [workspace |-> ws1, search |-> setResultCount_(s1, 0, 0),
             call |-> SearchCall(term, "undefined", <<>>)]
       ELSE LET results == searchLoop(ws.blocks, term, 1)
                h == higlightSearchIndex_(ws1, [s1 EXCEPT !.searchResults_ = results], 0)
            IN [workspace |-> h.workspace, search |-> h.search,
                call |-> IF h.threw THEN SearchCall(term, "threw", <<>>)
                         ELSE SearchCall(term, "returned", results)]

highlightNext_(ws, s) ==
    LET length == Len(s.searchResults_) IN
    IF length # 0
    THEN higlightSearchIndex_(ws, s, (s.highlightedIndex_ + 1) % length)
    ELSE [workspace |-> ws, search |-> s, threw |-> FALSE]

(***************************** dynamic shape paths **************************)
MaxHalfHeight == 3

\* Heights are even, so that height / 2 is exact.
Heights == {2 * k : k \in 0..MaxHalfHeight}
DynamicShapes == {"hexagonal", "rounded"}

\* A relative path segment: svgPaths.lineTo(dx, dy) is "l"; svgPaths.arc('a',
\* '0 0 ' + sweep, radius, point(dx, dy)) is "a".
lineTo(dx, dy) == [cmd |-> "l", sweep |-> 0, radius |-> 0, dx |-> dx, dy |-> dy]
arc(sweep, radius, dx, dy) ==
    [cmd |-> "a", sweep |-> sweep, radius |-> radius, dx |-> dx, dy |-> dy]

\* makeMainPath of makeHexagonal.
makeMainPathHexagonal(height, up, right) ==
    LET width == height \div 2
        forward == IF up THEN -1 ELSE 1
        direction == IF right THEN -1 ELSE 1
        dy == (forward * height) \div 2
    IN <<lineTo(-direction * width, dy), lineTo(direction * width, dy)>>

\* makeMainPath of makeRounded.
makeMainPathRounded(height, up, right) ==
    LET edgeWidth == height \div 2 IN
    <<arc(IF up \/ right THEN 1 ELSE 0, edgeWidth,
          0, (IF up THEN -1 ELSE 1) * edgeWidth * 2)>>

makeMainPath(kind, height, up, right) ==
    IF kind = "hexagonal" THEN makeMainPathHexagonal(height, up, right)
    ELSE makeMainPathRounded(height, up, right)

\* The functions of the object that makeHexagonal and makeRounded return.
shapeWidth(kind, height) == height \div 2
shapeHeight(kind, height) == height
pathDown(kind, height) == makeMainPath(kind, height, FALSE, FALSE)
pathUp(kind, height) == makeMainPath(kind, height, TRUE, FALSE)
pathRightDown(kind, height) == makeMainPath(kind, height, FALSE, TRUE)
pathRightUp(kind, height) == makeMainPath(kind, height, FALSE, TRUE)

PathFunctions == {"pathDown", "pathUp", "pathRightDown", "pathRightUp"}

callPath(fn, kind, height) ==
    CASE fn = "pathDown" -> pathDown(kind, height)
      [] fn = "pathUp" -> pathUp(kind, height)
      [] fn = "pathRightDown" -> pathRightDown(kind, height)
      [] fn = "pathRightUp" -> pathRightUp(kind, height)

\* The descriptor in use and the height it is asked about; no descriptor.
Dynamic(kind, height) == [shape |-> kind, height |-> height]
NoDynamic == Dynamic("none", 0)
NoPaths == [fn \in {} |-> <<>>]
NoSizes == [fn \in {} |-> 0]

(***************************** Blockly.FieldNumber **************************)
MaxText == 2
MaxConstraint == 2

\* Infinity lies beyond every number the field can hold.
Infinity == 100 * (MaxConstraint + 1)
isFinite(n) == n # Infinity /\ n # -Infinity

\* An argument that may be null or undefined: <<>> is null, <<n>> the number.
Nullable(S) == {<<>>} \cup {<<n>> : n \in S}
ConstraintArgs == Nullable(0..MaxConstraint)

\* The texts a user types, character by character.
InputChars == {"1", "O", ",", "x", "-"}
InputTexts == SeqsUpTo(InputChars, MaxText)

\* newValue.replace(/O/ig, '0') and newValue.replace(/,/g, '').
RECURSIVE cleanUpText(_)
cleanUpText(text) ==
    IF text = <<>> THEN <<>>
    ELSE LET c == Head(text) IN
         (IF c = "," THEN <<>> ELSE IF c = "O" THEN <<"0">> ELSE <<c>>)
         \o cleanUpText(Tail(text))

isDigits(text) == text # <<>> /\ \A i \in 1..Len(text) : text[i] \in {"0", "1"}

RECURSIVE digitsValue(_)
digitsValue(text) ==
    IF text = <<>> THEN 0
    ELSE 10 * digitsValue(SubSeq(text, 1, Len(text) - 1))
         + (IF text[Len(text)] = "1" THEN 1 ELSE 0)

\* Number(newValue || 0): <<n>>, or <<>> for NaN.
toNumber(text) ==
    IF text = <<>> THEN <<0>>
    ELSE IF isDigits(text) THEN <<digitsValue(text)>>
    ELSE IF Head(text) = "-" /\ isDigits(Tail(text)) THEN <<-digitsValue(Tail(text))>>
    ELSE <<>>

Min(a, b) == IF a <= b THEN a ELSE b

\* Math.round(n / precision): the nearest integer, halves towards +Infinity.
round(n, precision) == (2 * n + precision) \div (2 * precision)

\* new Blockly.FieldNumber(): no constraints, value 0.
NewField ==
    [min_ |-> -Infinity, max_ |-> Infinity, precision_ |-> 0,
     decimalPlaces_ |-> <<>>, value_ |-> 0]

setMinInternal_(f, min) ==
    [f EXCEPT !.min_ = IF min = <<>> THEN -Infinity ELSE min[1]]

setMaxInternal_(f, max) ==
    [f EXCEPT !.max_ = IF max = <<>> THEN Infinity ELSE max[1]]

\* An integer precision has no decimal point: decimalPlaces_ is 0 when the
\* precision is non-zero and null otherwise.
setPrecisionInternal_(f, precision) ==
    LET p == IF precision = <<>> THEN 0 ELSE precision[1] IN
    [f EXCEPT !.precision_ = p,
              !.decimalPlaces_ = IF p # 0 THEN <<0>> ELSE <<>>]

\* n.toFixed(decimalPlaces) of an integer n is n.
toFixed(n, decimalPlaces) == n

\* The part of doClassValidation_ after Number(): the value is brought into
\* range, rounded and cleaned up.
validateNumber(f, number) ==
    LET clamped == Min(Max(number, f.min_), f.max_)
        rounded == IF f.precision_ # 0 /\ isFinite(clamped)
                   THEN round(clamped, f.precision_) * f.precision_
                   ELSE clamped
    IN IF f.decimalPlaces_ # <<>>
       THEN toFixed(rounded, f.decimalPlaces_[1]) ELSE rounded

\* The value null, which is no text.
NullValue == <<"null">>

doClassValidation_(f, opt_newValue) ==
    IF opt_newValue = NullValue THEN <<>>
    ELSE LET n == toNumber(cleanUpText(opt_newValue)) IN
         IF n = <<>> THEN <<>> ELSE <<validateNumber(f, n[1])>>

\* Field.setValue stores the validated value unless it is null.
setNumber(f, number) == [f EXCEPT !.value_ = validateNumber(f, number)]

setConstraints(f, min, max, precision) ==
    LET f3 == setPrecisionInternal_(setMaxInternal_(setMinInternal_(f, min), max),
                                    precision)
    IN setNumber(f3, f3.value_)

\* doClassValidation_ gives back <<n>>, or <<>> for null.
\* What the last doClassValidation_ call was given and gave back.
Validation(text, result) == [text |-> text, result |-> result]
NoValidation == Validation(<<>>, <<>>)

(***************************** the state machine ****************************)
\* The parts outside the layout as they are when nothing has used them: the
\* provider after init(), no shapeFor call, a drawer and a highlighter with
\* empty paths, an empty registry.
ShapeIdle == connection = NoConnection /\ shape = NoShape
DrawIdle == drawer = Drawer(FALSE) /\ highlighter = Highlighter(<<>>)
RegistryIdle == typeMap_ = EmptyTypeMap /\ returned = NoCall
SearchIdle ==
    workspace = NoWorkspace /\ workspaceSearch = NewSearch /\ searched = NoSearch
PathIdle == dynamic = NoDynamic /\ paths = NoPaths /\ sizes = NoSizes
FieldIdle == field = NewField /\ validated = NoValidation
RendererIdle == constants = init /\ ShapeIdle /\ DrawIdle /\ RegistryIdle
OtherIdle == RendererIdle /\ SearchIdle /\ PathIdle /\ FieldIdle

\* pc names the pass of measure() that runs next; calls counts the measure()
\* calls on the current RenderInfo; last holds, for every earlier finished
\* measure(), the geometry it produced and the number of measure() calls its
\* RenderInfo had seen.
Init ==
    /\ block \in Blocks
    /\ info = RenderInfo(block)
    /\ pc = "createRows_"
    /\ calls = 1
    /\ last = <<>>
    /\ OtherIdle

\* Mutant of CreateRows: the pass marks the block's inputs as rendered inline.
CreateRowsSettingInline ==
    /\ pc = "createRows_"
    /\ info' = createRows_(info, block)
    /\ pc' = "addElemSpacing_"
    /\ block' = [block EXCEPT !.inputsInline = TRUE]
    /\ UNCHANGED <<calls, last, otherVars>>

CreateRows ==
    /\ pc = "createRows_"
    /\ info' = createRows_(info, block)
    /\ pc' = "addElemSpacing_"
    /\ UNCHANGED <<block, calls, last, otherVars>>

AddElemSpacing ==
    /\ pc = "addElemSpacing_"
    /\ info' = addElemSpacing_(info)
    /\ pc' = "computeBounds_"
    /\ UNCHANGED <<block, calls, last, otherVars>>

ComputeBounds ==
    /\ pc = "computeBounds_"
    /\ info' = computeBounds_(info)
    /\ pc' = "alignRowElements_"
    /\ UNCHANGED <<block, calls, last, otherVars>>

AlignRowElements ==
    /\ pc = "alignRowElements_"
    /\ info' = alignRowElements_(info)
    /\ pc' = "addRowSpacing_"
    /\ UNCHANGED <<block, calls, last, otherVars>>

AddRowSpacing ==
    /\ pc = "addRowSpacing_"
    /\ info' = addRowSpacing_(info)
    /\ pc' = "finalize_"
    /\ UNCHANGED <<block, calls, last, otherVars>>

Finalize ==
    /\ pc = "finalize_"
    /\ info' = finalize_(info)
    /\ pc' = "done"
    /\ UNCHANGED <<block, calls, last, otherVars>>

\* Mutant of Render: the new RenderInfo shares the row list and the row
\* objects of the previous one (this.rows not created per instance).
RenderStaleRows ==
    /\ pc = "done"
    /\ Len(last) + 1 < MaxMeasures
    /\ last' = Append(last, [geometry |-> Geometry(info), calls |-> calls])
    /\ info' = [RenderInfo(block) EXCEPT !.rows = info.rows, !.heap = info.heap]
    /\ pc' = "createRows_"
    /\ calls' = 1
    /\ UNCHANGED <<block, otherVars>>

\* The next render pass of the same block: a fresh RenderInfo is constructed
\* and measured.
Render ==
    /\ pc = "done"
    /\ Len(last) + 1 < MaxMeasures
    /\ last' = Append(last, [geometry |-> Geometry(info), calls |-> calls])
    /\ info' = RenderInfo(block)
    /\ pc' = "createRows_"
    /\ calls' = 1
    /\ UNCHANGED <<block, otherVars>>

\* measure() called again on the RenderInfo that was already measured.
Remeasure ==
    /\ pc = "done"
    /\ Len(last) + 1 < MaxMeasures
    /\ last' = Append(last, [geometry |-> Geometry(info), calls |-> calls])
    /\ pc' = "createRows_"
    /\ calls' = calls + 1
    /\ UNCHANGED <<block, info, otherVars>>

Next ==
    \/ CreateRows
    \/ AddElemSpacing
    \/ ComputeBounds
    \/ AlignRowElements
    \/ AddRowSpacing
    \/ Finalize

Spec == Init /\ [][Next]_vars

\* Repeated measurement: further render passes of the same block, and
\* measure() called again on a measured RenderInfo.  Invisible inputs are
\* skipped by createRows_, so the blocks here have visible inputs only.
InitRemeasure ==
    /\ Init
    /\ \A i \in 1..Len(block.inputList) : block.inputList[i].visible

NextRemeasure == Next \/ Render \/ Remeasure

SpecRemeasure == InitRemeasure /\ [][NextRemeasure]_vars

(***************************** shapeFor calls *******************************)
\* A block without inputs, icons or connections, and the layout state of a
\* behaviour that renders nothing.
NoBlock ==
    [inputList |-> <<>>, icons |-> <<>>, inputsInline |-> FALSE,
     collapsed |-> FALSE, outputConnection |-> FALSE,
     previousConnection |-> FALSE, nextConnection |-> FALSE]

LayoutIdle ==
    /\ block = NoBlock /\ info = RenderInfo(NoBlock)
    /\ calls = 0 /\ last = <<>>

layoutVars == <<block, info, calls, last>>

\* shapeFor is called on a connection of any type and check list, on a
\* provider whose init() has run.
InitShape ==
    /\ LayoutIdle /\ DrawIdle /\ RegistryIdle
    /\ SearchIdle /\ PathIdle /\ FieldIdle
    /\ constants = init
    /\ connection \in Connections
    /\ shape = NoShape
    /\ pc = "shapeFor"

ShapeFor ==
    /\ pc = "shapeFor"
    /\ shape' = shapeFor(constants, connection)
    /\ pc' = "returned"
    /\ UNCHANGED <<layoutVars, constants, connection, drawVars, registryVars, searchVars, pathVars, fieldVars>>

NextShape == ShapeFor

SpecShape == InitShape /\ [][NextShape]_vars

(***************************** drawing **************************************)
\* The blocks whose outline is drawn: at most one input, visible.
DrawBlocks ==
    [inputList : SeqsUpTo({input \in Inputs : input.visible}, 1),
     icons : SeqsUpTo(Icons, MaxIcons),
     inputsInline : BOOLEAN,
     collapsed : BOOLEAN,
     outputConnection : BOOLEAN,
     previousConnection : BOOLEAN,
     nextConnection : BOOLEAN]

\* Highlight steps already on the path object when a Highlighter is built.
EarlierSteps == {<<>>, <<Frag("m", 0, 0, "top", 0)>>}

\* A Drawer and a Highlighter are constructed over a measured RenderInfo, of
\* an LTR or RTL block, whose top and bottom rows hold the corners of one of
\* the styles.
InitDraw ==
    /\ block \in DrawBlocks
    /\ \E style \in CornerStyles :
          info = WithCorners(measure(RenderInfo(block), block), style)
    /\ calls = 1 /\ last = <<>>
    /\ pc = "drawTop_"
    /\ \E RTL \in BOOLEAN : drawer = Drawer(RTL)
    /\ \E steps \in EarlierSteps : highlighter = Highlighter(steps)
    /\ constants = init /\ ShapeIdle /\ RegistryIdle
    /\ SearchIdle /\ PathIdle /\ FieldIdle

DrawTop ==
    /\ pc = "drawTop_"
    /\ drawer' = drawTop_(drawer, info)
    /\ pc' = "drawBottom_"
    /\ UNCHANGED <<layoutVars, constants, shapeVars, highlighter, registryVars, searchVars, pathVars, fieldVars>>

DrawBottom ==
    /\ pc = "drawBottom_"
    /\ drawer' = drawBottom_(drawer, info)
    /\ pc' = "drawn"
    /\ UNCHANGED <<layoutVars, constants, shapeVars, highlighter, registryVars, searchVars, pathVars, fieldVars>>

\* The highlighter is handed the row with the jagged edge.
HighlightJaggedEdge ==
    /\ pc = "drawn"
    /\ \E i \in 1..Len(info.rows) :
          /\ RowAt(info, i).hasJaggedEdge
          /\ highlighter' = drawJaggedEdge_(highlighter, drawer.RTL, RowAt(info, i))
    /\ pc' = "highlighted"
    /\ UNCHANGED <<layoutVars, constants, shapeVars, drawer, registryVars, searchVars, pathVars, fieldVars>>

NextDraw == DrawTop \/ DrawBottom \/ HighlightJaggedEdge

SpecDraw == InitDraw /\ [][NextDraw]_vars

(***************************** registry calls *******************************)
InitRegistry ==
    /\ LayoutIdle /\ ShapeIdle /\ DrawIdle
    /\ SearchIdle /\ PathIdle /\ FieldIdle
    /\ constants = init
    /\ typeMap_ = EmptyTypeMap
    /\ returned = NoCall
    /\ pc = "registry"

Register ==
    /\ pc = "registry"
    /\ \E type \in RegistryTypes, name \in RegistryNames, class \in RegistryClasses :
          LET r == register(typeMap_, type, name, class) IN
          /\ typeMap_' = r[1]
          /\ returned' = Call("register", type, name, class, r[2])
    /\ UNCHANGED <<layoutVars, pc, constants, shapeVars, drawVars, searchVars, pathVars, fieldVars>>

Unregister ==
    /\ pc = "registry"
    /\ \E type \in RegistryTypes, name \in RegistryNames :
          LET r == unregister(typeMap_, type, name) IN
          /\ typeMap_' = r[1]
          /\ returned' = Call("unregister", type, name, Undefined, r[2])
    /\ UNCHANGED <<layoutVars, pc, constants, shapeVars, drawVars, searchVars, pathVars, fieldVars>>

GetClass ==
    /\ pc = "registry"
    /\ \E type \in RegistryTypes, name \in RegistryNames :
          returned' = Call("getClass", type, name, Undefined,
                           getClass(typeMap_, type, name))
    /\ UNCHANGED <<layoutVars, pc, constants, shapeVars, drawVars, typeMap_, searchVars, pathVars, fieldVars>>

NextRegistry == Register \/ Unregister \/ GetClass

SpecRegistry == InitRegistry /\ [][NextRegistry]_vars

(***************************** workspace search *****************************)
\* A search box on a workspace of any blocks; the user searches for a term or
\* asks for the next match, in any order.
InitSearch ==
    /\ LayoutIdle /\ RendererIdle /\ PathIdle /\ FieldIdle
    /\ workspace \in Workspaces
    /\ workspaceSearch = NewSearch
    /\ searched = NoSearch
    /\ pc = "idle"

Search ==
    /\ \E term \in Strings :
          LET r == search(workspace, workspaceSearch, term) IN
          /\ workspace' = r.workspace
          /\ workspaceSearch' = r.search
          /\ searched' = r.call
    /\ pc' = "search"
    /\ UNCHANGED <<layoutVars, rendererVars, pathVars, fieldVars>>

HighlightNext ==
    /\ LET r == highlightNext_(workspace, workspaceSearch) IN
          /\ workspace' = r.workspace
          /\ workspaceSearch' = r.search
    /\ pc' = "highlightNext_"
    /\ UNCHANGED <<layoutVars, rendererVars, searched, pathVars, fieldVars>>

NextSearch == Search \/ HighlightNext

SpecSearch == InitSearch /\ [][NextSearch]_vars

(***************************** shape path calls *****************************)
\* The functions of a dynamic shape descriptor are called for one height,
\* each once, in any order.
InitPath ==
    /\ LayoutIdle /\ RendererIdle /\ SearchIdle /\ FieldIdle
    /\ \E kind \in DynamicShapes, height \in Heights : dynamic = Dynamic(kind, height)
    /\ paths = NoPaths
    /\ sizes = NoSizes
    /\ pc = "paths"

CallPath ==
    /\ \E fn \in PathFunctions \ DOMAIN paths :
          paths' = [g \in DOMAIN paths \cup {fn} |->
                      IF g = fn THEN callPath(fn, dynamic.shape, dynamic.height)
                      ELSE paths[g]]
    /\ UNCHANGED <<layoutVars, pc, rendererVars, searchVars, dynamic, sizes, fieldVars>>

CallSize ==
    /\ \E fn \in {"width", "height"} \ DOMAIN sizes :
          sizes' = [g \in DOMAIN sizes \cup {fn} |->
                      IF g # fn THEN sizes[g]
                      ELSE IF fn = "width"
                      THEN shapeWidth(dynamic.shape, dynamic.height)
                      ELSE shapeHeight(dynamic.shape, dynamic.height)]
    /\ UNCHANGED <<layoutVars, pc, rendererVars, searchVars, dynamic, paths, fieldVars>>

NextPath == CallPath \/ CallSize

SpecPath == InitPath /\ [][NextPath]_vars

(***************************** number field calls ***************************)
\* A number field: its constraints are set and values are validated, in any
\* order.
InitField ==
    /\ LayoutIdle /\ RendererIdle /\ SearchIdle /\ PathIdle
    /\ field = NewField
    /\ validated = NoValidation
    /\ pc = "idle"

SetConstraints ==
    /\ \E min \in ConstraintArgs, max \in ConstraintArgs, precision \in ConstraintArgs :
          field' = setConstraints(field, min, max, precision)
    /\ pc' = "setConstraints"
    /\ UNCHANGED <<layoutVars, rendererVars, searchVars, pathVars, validated>>

DoClassValidation ==
    /\ \E opt_newValue \in InputTexts \cup {NullValue} :
          validated' = Validation(opt_newValue, doClassValidation_(field, opt_newValue))
    /\ pc' = "doClassValidation_"
    /\ UNCHANGED <<layoutVars, rendererVars, searchVars, pathVars, field>>

NextField == SetConstraints \/ DoClassValidation

SpecField == InitField /\ [][NextField]_vars

(***************************** properties ***********************************)
Done == pc = "done"

\* The first measure() of a freshly constructed RenderInfo has finished.
Measured == Done /\ calls = 1

RowIdx == 1..Len(info.rows)

IsNotSpacer(elem) == ~isSpacer(elem)

NonSpacers(row) == SelectSeq(row.elements, IsNotSpacer)

\* The width of the statement-input Measurable of a row (0 without one).
StatementInputWidth(row) == SumWidths(SelectSeq(row.elements, isStatementInput))

\* An input row that alignRowElements_ aligns.
AlignedInputRow(row) == row.type = "input row" /\ ~row.hasInlineInput

RECURSIVE SumHeights(_, _)
SumHeights(inf, i) ==
    IF i > Len(inf.rows) THEN 0 ELSE RowAt(inf, i).height + SumHeights(inf, i + 1)

\* yPos is the running sum of the row heights, from 0, and height their sum.
RunningY ==
    /\ RowAt(info, 1).yPos = 0
    /\ \A i \in RowIdx :
          i < Len(info.rows) =>
              RowAt(info, i + 1).yPos = RowAt(info, i).yPos + RowAt(info, i).height
    /\ info.height = SumHeights(info, 1)

\* C2 (as claimed): after measure(), yPos is the running sum of the row
\* heights from 0, strictly increasing, and height is the sum of all heights.
C2_MonotonicYAsClaimed ==
    Measured =>
        /\ RunningY
        /\ \A i \in RowIdx :
              i < Len(info.rows) => RowAt(info, i + 1).yPos > RowAt(info, i).yPos

\* C2 (amended): after measure(), yPos is the running sum of the row heights
\* from 0 and height is the sum of all heights; yPos never decreases, and it
\* increases strictly after every row except an input row that holds nothing
\* but spacers (a visible dummy input without fields), whose height is 0.
C2_MonotonicY ==
    Measured =>
        /\ RunningY
        /\ \A i \in RowIdx :
              i < Len(info.rows) =>
                  /\ RowAt(info, i + 1).yPos >= RowAt(info, i).yPos
                  /\ (RowAt(info, i + 1).yPos = RowAt(info, i).yPos
                        <=> /\ RowAt(info, i).type = "input row"
                            /\ NonSpacers(RowAt(info, i)) = <<>>)

\* C2 witness: a measured block with an input row of height 0 and one of
\* positive height.
C2_Witness ==
    /\ Measured
    /\ \E i, j \in RowIdx :
          /\ RowAt(info, i).type = "input row" /\ RowAt(info, i).height = 0
          /\ RowAt(info, j).type = "input row" /\ RowAt(info, j).height > 0

\* C3: after measure(), within every row each element starts where the one
\* before it ends (xPos[i+1] = xPos[i] + width[i]) and xPos never decreases
\* from left to right.
C3_XOrdering ==
    Measured =>
        \A i \in RowIdx :
            LET elems == RowAt(info, i).elements IN
            \A j \in 1..Len(elems) :
                j < Len(elems) =>
                    /\ elems[j + 1].xPos = elems[j].xPos + elems[j].width
                    /\ elems[j + 1].xPos >= elems[j].xPos

\* C3 witness: a measured block with an output connection (rows start at
\* startX > 0), a row of at least five elements, and a row whose last spacer
\* alignment has changed.
C3_Witness ==
    /\ Measured
    /\ info.startX > 0
    /\ \E i \in RowIdx : Len(RowAt(info, i).elements) >= 5
    /\ \E i \in RowIdx :
          LET elems == RowAt(info, i).elements IN
          /\ RowAt(info, i).type = "input row"
          /\ elems[Len(elems)].width > LARGE_PADDING
          /\ elems[1].xPos = info.startX

\* The record of the measure() before the current one.
Previous == last[Len(last)]

C5_NeverShrunk ==
    [][pc = "alignRowElements_" =>
         /\ Len(info'.rows) = Len(info.rows)
         /\ \A i \in RowIdx :
               /\ RowAt(info', i).width >= RowAt(info, i).width
               /\ Len(RowAt(info', i).elements) = Len(RowAt(info, i).elements)
               /\ \A j \in 1..Len(RowAt(info, i).elements) :
                     RowAt(info', i).elements[j].width
                         >= RowAt(info, i).elements[j].width]_vars

\* Scenario B: a non-inline block with one statement input followed by one
\* dummy input, both visible.
ScenarioB(b) ==
    /\ ~b.inputsInline
    /\ Len(b.inputList) = 2
    /\ b.inputList[1].type = NEXT_STATEMENT /\ b.inputList[1].visible
    /\ b.inputList[2].type = DUMMY_INPUT /\ b.inputList[2].visible

\* The row of the dummy input: an input row with the dummy flag and no
\* statement input.
IsDummyRow(row) == row.type = "input row" /\ row.hasDummyInput /\ ~row.hasStatement

\* The summed width of the elements before the statement input of a row.
WidthBeforeStatement(row) ==
    SumWidths(SubSeq(row.elements, 1, getLastInput(row) - 1))

\* C6 (as claimed): in scenario B, after measure(), statementEdge equals the
\* width of the dummy input's row.
C6_StatementEdgeAsClaimed ==
    (Measured /\ ScenarioB(block)) =>
        \A j \in RowIdx :
            IsDummyRow(RowAt(info, j)) => info.statementEdge = RowAt(info, j).width

\* C6 (amended): in scenario B, after measure(), statementEdge equals the
\* statement row's measured width minus the width of its statement-input
\* Measurable, that is the summed width of the elements before the statement
\* input; the dummy input's row, when there is one, is width - startX wide,
\* which is more than statementEdge.
C6_StatementEdge ==
    (Measured /\ ScenarioB(block)) =>
        /\ \E i \in RowIdx : RowAt(info, i).hasStatement
        /\ \A i \in RowIdx :
              RowAt(info, i).hasStatement =>
                  /\ isStatementInput(RowAt(info, i).elements[getLastInput(RowAt(info, i))])
                  /\ info.statementEdge = WidthBeforeStatement(RowAt(info, i))
                  /\ RowAt(info, i).statementEdge = info.statementEdge
        /\ \A j \in RowIdx :
              IsDummyRow(RowAt(info, j)) =>
                  /\ RowAt(info, j).width = info.width - info.startX
                  /\ RowAt(info, j).width > info.statementEdge

\* C6 witness: scenario B measured, with fields on both inputs, so that both
\* rows exist and the statement row has content before its statement input.
C6_Witness ==
    /\ Measured /\ ScenarioB(block)
    /\ Len(block.inputList[1].fieldRow) > 0
    /\ Len(block.inputList[2].fieldRow) > 0
    /\ \E j \in RowIdx : IsDummyRow(RowAt(info, j))
    /\ info.statementEdge > MEDIUM_PADDING

\* C7 (as claimed): in scenario B, after alignment, the statement row's width
\* equals statementEdge plus the width of its statement-input Measurable.
C7_StatementRowStretched ==
    ((pc \in {"addRowSpacing_", "finalize_", "done"}) /\ calls = 1 /\ ScenarioB(block)) =>
        \A i \in RowIdx :
            RowAt(info, i).hasStatement =>
                RowAt(info, i).width
                    = info.statementEdge + StatementInputWidth(RowAt(info, i))

\* The types of the elements of a sequence.
TypesOf(elems) == [j \in 1..Len(elems) |-> elems[j].type]

\* The rows of the RenderInfo that are not spacer rows, in order.
IsNotSpacerRow(row) == row.type # "between-row spacer"

ContentRows == SelectSeq([i \in RowIdx |-> RowAt(info, i)], IsNotSpacerRow)

\* How many elements of the given type the rows hold.
RECURSIVE CountType(_, _, _)
CountType(inf, type, i) ==
    IF i > Len(inf.rows) THEN 0
    ELSE Len(SelectSeq(RowAt(inf, i).elements, LAMBDA e : e.type = type))
         + CountType(inf, type, i + 1)

IsVisible(input) == input.visible

VisibleInputs(b) == SelectSeq(b.inputList, IsVisible)

\* The icons that createRows_ puts on the first row.
ShownIcons(b) ==
    SelectSeq(b.icons, LAMBDA icon : ~(b.collapsed /\ icon.collapseHidden))

WithoutOutput(b) == [b EXCEPT !.outputConnection = FALSE]

\* C9: when the block has an output connection, after measure() startX is
\* the output connection Measurable's width, and width and widthWithChildren
\* are each larger by exactly startX than for the same block measured
\* without an output connection, for which startX is 0.
C9_OutputConnection ==
    (Measured /\ block.outputConnection) =>
        LET b0 == WithoutOutput(block)
            other == measure(RenderInfo(b0), b0)
        IN /\ info.startX = info.outputConnection[1].width
           /\ info.startX > 0
           /\ other.startX = 0
           /\ info.width = other.width + info.startX
           /\ info.widthWithChildren = other.widthWithChildren + info.startX

\* C9 witness: a measured block with an output connection and two input rows.
C9_Witness ==
    /\ Measured /\ block.outputConnection
    /\ Len(ContentRows) >= 4
    /\ info.width > info.startX

\* Scenario A: a block with exactly one input, a visible dummy input holding
\* a single field.
ScenarioA(b) ==
    /\ Len(b.inputList) = 1
    /\ b.inputList[1].type = DUMMY_INPUT /\ b.inputList[1].visible
    /\ Len(b.inputList[1].fieldRow) = 1

\* Scenario A's rows: top, spacer, input, spacer, bottom, and the block
\* height the sum of their heights.
ScenarioARows ==
    /\ TypesOf([i \in RowIdx |-> RowAt(info, i)])
          = <<"top row", "between-row spacer", "input row",
              "between-row spacer", "bottom row">>
    /\ info.height = RowAt(info, 1).height + RowAt(info, 2).height
                     + RowAt(info, 3).height + RowAt(info, 4).height
                     + RowAt(info, 5).height

\* The measured width of the top row and of the bottom row of a block: the
\* two corners and the connection, each followed by a medium spacer.
TopRowWidth(b) ==
    CORNER_RADIUS + MEDIUM_PADDING
    + (IF b.previousConnection THEN NOTCH_WIDTH + MEDIUM_PADDING ELSE 0)
    + CORNER_RADIUS + MEDIUM_PADDING

BottomRowWidth(b) ==
    CORNER_RADIUS + MEDIUM_PADDING
    + (IF b.nextConnection THEN NOTCH_WIDTH + MEDIUM_PADDING ELSE 0)
    + CORNER_RADIUS + MEDIUM_PADDING

\* The measured width of scenario A's input row: a medium spacer, then the
\* shown icons, the field and (collapsed) the jagged edge, each followed by a
\* medium spacer.
ScenarioAInputRowWidth(b) ==
    MEDIUM_PADDING
    + Len(ShownIcons(b)) * (ICON_SIZE + MEDIUM_PADDING)
    + b.inputList[1].fieldRow[1] + MEDIUM_PADDING
    + (IF b.collapsed THEN JAGGED_TEETH_WIDTH + MEDIUM_PADDING ELSE 0)

\* C10 (as claimed): in scenario A measure() yields the five rows top,
\* spacer, input, spacer, bottom, the block height is the sum of their
\* heights, and the block width is the field width plus the left and right
\* medium padding.
C10_ScenarioAAsClaimed ==
    (Measured /\ ScenarioA(block)) =>
        /\ ScenarioARows
        /\ info.width = block.inputList[1].fieldRow[1] + 2 * MEDIUM_PADDING

\* C10 (amended): in scenario A measure() yields the five rows top, spacer,
\* input, spacer, bottom and the block height is the sum of their heights;
\* the block width is startX plus the width of the widest of the top row,
\* the input row and the bottom row, so it equals the field width plus the
\* left and right medium padding only when the block has no output
\* connection, no shown icon, is not collapsed, and its top and bottom rows
\* are not wider than that.
C10_ScenarioA ==
    (Measured /\ ScenarioA(block)) =>
        /\ ScenarioARows
        /\ info.width = info.startX
              + Max(ScenarioAInputRowWidth(block),
                    Max(TopRowWidth(block), BottomRowWidth(block)))
        /\ RowAt(info, 3).width = info.width - info.startX
        /\ (info.width = block.inputList[1].fieldRow[1] + 2 * MEDIUM_PADDING)
              <=> /\ ~block.outputConnection
                  /\ ShownIcons(block) = <<>>
                  /\ ~block.collapsed
                  /\ TopRowWidth(block)
                        <= block.inputList[1].fieldRow[1] + 2 * MEDIUM_PADDING
                  /\ BottomRowWidth(block)
                        <= block.inputList[1].fieldRow[1] + 2 * MEDIUM_PADDING

\* C10 witness: scenario A measured for a block without connections, icons
\* or collapse, whose width is the field width plus two medium paddings.
C10_Witness ==
    /\ Measured /\ ScenarioA(block)
    /\ ~block.outputConnection /\ ~block.previousConnection
    /\ ~block.nextConnection /\ ~block.collapsed /\ block.icons = <<>>
    /\ info.width = block.inputList[1].fieldRow[1] + 2 * MEDIUM_PADDING

\* The types of all rows of the RenderInfo, in order.
RowTypes == TypesOf([i \in RowIdx |-> RowAt(info, i)])

\* C11 (as claimed): a block with zero visible inputs measures to exactly
\* three rows: the top row, one spacer row and the bottom row, in that order.
C11_MinimumShapeAsClaimed ==
    (Measured /\ VisibleInputs(block) = <<>>) =>
        RowTypes = <<"top row", "between-row spacer", "bottom row">>

\* C11 (amended): a block with zero visible inputs measures to exactly the
\* three rows top, spacer, bottom when it shows no icon and is not collapsed;
\* when it shows an icon or is collapsed, the icons and the jagged edge get an
\* input row of their own and the rows are top, spacer, input, spacer, bottom.
C11_MinimumShape ==
    (Measured /\ VisibleInputs(block) = <<>>) =>
        IF ShownIcons(block) = <<>> /\ ~block.collapsed
        THEN RowTypes = <<"top row", "between-row spacer", "bottom row">>
        ELSE RowTypes = <<"top row", "between-row spacer", "input row",
                          "between-row spacer", "bottom row">>

\* C11 witness: a measured block whose inputs are all invisible, without
\* icons and not collapsed, that has the three rows top, spacer, bottom.
C11_Witness ==
    /\ Measured /\ VisibleInputs(block) = <<>> /\ Len(block.inputList) > 0
    /\ block.icons = <<>> /\ ~block.collapsed
    /\ Len(info.rows) = 3

\* The drawer has walked both rows.
Drawn == pc \in {"drawn", "highlighted"}

DrawnTopRow == info.heap[info.topRow]
DrawnBottomRow == info.heap[info.bottomRow]

\* The element a fragment was appended for.
FragElem(f) ==
    IF f.row = "top" THEN DrawnTopRow.elements[f.elem]
    ELSE DrawnBottomRow.elements[f.elem]

\* The fragments of the outline that belong to an element of the row.
ElemFrags(row) ==
    SelectSeq(drawer.outlinePath_, LAMBDA f : f.row = row /\ f.elem # 0)

\* Elements for which the loop of drawTop_, or of drawBottom_, has no branch.
NoTopBranch(elem) ==
    /\ ~isRoundedCorner(elem)
    /\ elem.type \notin {"previous connection", "hat"}
    /\ ~isSpacer(elem)

NoBottomBranch(elem) ==
    /\ ~isNextConnection(elem)
    /\ elem.type # "square corner left"
    /\ ~isRoundedCorner(elem)
    /\ ~isSpacer(elem)

\* C12: when the outline walk (drawTop_ over the top row, drawBottom_ over
\* the bottom row) has met an element that is no square corner and for whose
\* kind it has no branch, it has failed with an error.
C12_UnrecognizedIsFatal ==
    (Drawn /\ (\/ \E i \in 1..Len(DrawnTopRow.elements) :
                    /\ NoTopBranch(DrawnTopRow.elements[i])
                    /\ ~isSquareCorner(DrawnTopRow.elements[i])
               \/ \E i \in 1..Len(DrawnBottomRow.elements) :
                    /\ NoBottomBranch(DrawnBottomRow.elements[i])
                    /\ ~isSquareCorner(DrawnBottomRow.elements[i])))
        => drawer.threw

\* C13: shapeFor returns, for an input-value or output-value connection,
\* the hexagonal shape when the check list contains 'Boolean' (whatever else
\* it contains) and the rounded shape otherwise, a null check list included;
\* for a previous- or next-statement connection the notch; for any other
\* connection type it throws.  The three shapes are distinct.
C13_ShapeFor ==
    (pc = "returned") =>
        /\ Cardinality({constants.HEXAGONAL, constants.ROUNDED, constants.NOTCH}) = 3
        /\ connection.type \in {INPUT_VALUE, OUTPUT_VALUE} =>
              shape = IF /\ connection.check # <<>>
                         /\ \E k \in 1..Len(connection.check[1]) :
                               connection.check[1][k] = "Boolean"
                      THEN Return(constants.HEXAGONAL)
                      ELSE Return(constants.ROUNDED)
        /\ connection.type \in {PREVIOUS_STATEMENT, NEXT_STATEMENT} =>
              shape = Return(constants.NOTCH)
        /\ connection.type \notin {INPUT_VALUE, OUTPUT_VALUE,
                                    PREVIOUS_STATEMENT, NEXT_STATEMENT} =>
              shape.threw

\* C13 witness: shapeFor has returned the hexagonal shape for an output
\* connection whose check list holds 'Number' and then 'Boolean'.
C13_Witness ==
    /\ pc = "returned"
    /\ connection = [type |-> OUTPUT_VALUE, check |-> << <<"Number", "Boolean">> >>]
    /\ shape = Return(constants.HEXAGONAL)

\* C14: getClass of type 'renderer' for a name when nothing was ever
\* registered under that type fails with an error, it does not return null.
C14_UnknownRendererIsFatal ==
    (/\ returned.op = "getClass"
     /\ toLowerCase(returned.type) = "renderer"
     /\ ~typeMap_["renderer"].created)
        => returned.threw

\* C15 (as claimed): no fragment of the outline was appended for a square
\* corner, left or right, of the top row or of the bottom row.
C15_SquareCornersAsClaimed ==
    Drawn =>
        \A k \in 1..Len(drawer.outlinePath_) :
            LET f == drawer.outlinePath_[k] IN
            f.elem # 0 => ~isSquareCorner(FragElem(f))

\* C15 (amended): no fragment of the outline was appended for a square
\* corner of the top row or for the right square corner of the bottom row;
\* for the left square corner of the bottom row exactly one was, the
\* horizontal line to the bottom row's xPos.
C15_SquareCorners ==
    Drawn =>
        /\ \A k \in 1..Len(drawer.outlinePath_) :
              LET f == drawer.outlinePath_[k] IN
              (f.elem # 0 /\ isSquareCorner(FragElem(f))) =>
                  /\ f.row = "bottom"
                  /\ FragElem(f).type = "square corner left"
                  /\ f = Frag("H", DrawnBottomRow.xPos, 0, "bottom", f.elem)
        /\ \A i \in 1..Len(DrawnBottomRow.elements) :
              DrawnBottomRow.elements[i].type = "square corner left" =>
                  Len(SelectSeq(ElemFrags("bottom"), LAMBDA f : f.elem = i)) = 1

\* C15 witness: the outline of a block whose rows have square corners has
\* been walked, with a fragment for the bottom row's left square corner.
C15_Witness ==
    /\ Drawn
    /\ \E i \in 1..Len(DrawnTopRow.elements) : isSquareCorner(DrawnTopRow.elements[i])
    /\ \E k \in 1..Len(drawer.outlinePath_) :
          /\ drawer.outlinePath_[k].path = "H"
          /\ drawer.outlinePath_[k].elem # 0

\* The element indices of a sequence of fragments.
ElemsOf(frags) == [k \in 1..Len(frags) |-> frags[k].elem]

\* The indices of the row's elements for which one fragment is appended:
\* the connection, the rounded corners and the spacers.
DrawnIndices(row, noBranch(_)) ==
    SelectSeq([i \in 1..Len(row.elements) |-> i],
              LAMBDA i : ~noBranch(row.elements[i]))

Reverse(seq) == [k \in 1..Len(seq) |-> seq[Len(seq) + 1 - k]]

\* C16: the fragments drawTop_ appended for the top row's elements are in
\* stored order, those drawBottom_ appended for the bottom row's elements
\* are in reverse stored order, one per element that has a branch, the top
\* row's before the bottom row's; a previous connection contributed its
\* shape's pathLeft in the top walk and a next connection its shape's
\* pathRight in the bottom walk.
C16_WalkOrder ==
    Drawn =>
        /\ ElemsOf(ElemFrags("top")) = DrawnIndices(DrawnTopRow, NoTopBranch)
        /\ ElemsOf(ElemFrags("bottom"))
              = Reverse(DrawnIndices(DrawnBottomRow, NoBottomBranch))
        /\ \A j, k \in 1..Len(drawer.outlinePath_) :
              (drawer.outlinePath_[j].row = "top"
               /\ drawer.outlinePath_[k].row = "bottom") => j < k
        /\ \A k \in 1..Len(drawer.outlinePath_) :
              LET f == drawer.outlinePath_[k] IN
              f.elem # 0 =>
                  /\ isPreviousConnection(FragElem(f)) =>
                        (f.row = "top" /\ f.path = "shape.pathLeft")
                  /\ isNextConnection(FragElem(f)) =>
                        (f.row = "bottom" /\ f.path = "shape.pathRight")
        /\ block.previousConnection =>
              \E k \in 1..Len(drawer.outlinePath_) :
                  drawer.outlinePath_[k].path = "shape.pathLeft"
        /\ block.nextConnection =>
              \E k \in 1..Len(drawer.outlinePath_) :
                  drawer.outlinePath_[k].path = "shape.pathRight"

\* C16 witness: the outline of a block with a previous and a next
\* connection has been walked, with several fragments for each row.
C16_Witness ==
    /\ Drawn /\ block.previousConnection /\ block.nextConnection
    /\ Len(ElemFrags("top")) >= 3 /\ Len(ElemFrags("bottom")) >= 3

\* C17: the fragments drawTop_ and drawBottom_ appended are those they
\* append for the same RenderInfo when the RTL flag is the opposite one.
C17_NoRTLConditionals ==
    Drawn =>
        drawer.outlinePath_
            = drawBottom_(drawTop_(Drawer(~drawer.RTL), info), info).outlinePath_

\* C17 witness: the outline of an RTL block with an output connection has
\* been walked.
C17_Witness ==
    /\ Drawn /\ drawer.RTL /\ block.outputConnection
    /\ Len(drawer.outlinePath_) > 3

C19_JaggedHighlight ==
    [][(pc = "drawn" /\ pc' = "highlighted") =>
          IF drawer.RTL
          THEN /\ Len(highlighter'.steps_) = Len(highlighter.steps_) + 3
               /\ SubSeq(highlighter'.steps_, 1, Len(highlighter.steps_))
                     = highlighter.steps_
          ELSE highlighter'.steps_ = highlighter.steps_]_vars

\* C19 witness: drawJaggedEdge_ has run for an LTR block whose highlight
\* step list was not empty.
C19_Witness ==
    /\ pc = "highlighted" /\ ~drawer.RTL /\ block.collapsed
    /\ highlighter.steps_ # <<>>

\* The names registered in each type registry (own properties).
Entries(map) == [t \in LowerTypes |-> map[t].names]

\* C20: the registry is a map keyed by lower-cased (type, name): getClass
\* returns the class registered for the pair, null when there is none, and
\* changes nothing; register of a pair that is registered throws and changes
\* nothing, register of another pair either throws and changes nothing or
\* enters the class for that pair only; unregister removes that pair only.
C20_RegistryIsMap ==
    [][LET r == returned'
           t == toLowerCase(r.type)
           n == toLowerCase(r.name)
           before == Entries(typeMap_)
           after == Entries(typeMap_')
       IN CASE r.op = "getClass" ->
                 /\ after = before
                 /\ ~r.threw
                 /\ r.value = IF before[t][n] # Undefined THEN before[t][n] ELSE Null
            [] r.op = "register" ->
                 IF before[t][n] # Undefined \/ r.threw
                 THEN r.threw /\ after = before
                 ELSE after = [before EXCEPT ![t][n] = r.class]
            [] r.op = "unregister" ->
                 after = [before EXCEPT ![t][n] = Undefined]
            [] OTHER -> TRUE]_vars


(***************************** C21 ******************************************)
\* Whether term occurs somewhere in str, and the blocks of a workspace whose
\* string contains term, in workspace order.
Contains(str, term) == \E k \in 0..Len(str) : OccursAt(str, term, k)

Matching(blocks, term) ==
    SelectSeq([i \in 1..Len(blocks) |-> i], LAMBDA i : Contains(blocks[i], term))

\* C21: search(term) returns the list of exactly the workspace blocks whose
\* string form contains the term, in workspace order (the empty list when no
\* block matches), and leaves the first match, if any, as the only highlighted
\* block.
C21_SearchReturnsMatches ==
    pc = "search" =>
       LET m == Matching(workspace.blocks, searched.term) IN
       /\ searched.kind = "returned"
       /\ searched.value = m
       /\ workspace.highlighted = (IF m = <<>> THEN {} ELSE {m[1]})


\* A search that matched no block ended in a TypeError.
C21_NoMatchThrows == pc = "search" /\ searched.kind = "threw"


(***************************** C22 ******************************************)
\* createRows_ of the first measure() has just run.
RowsCreated == pc = "addElemSpacing_" /\ calls = 1

\* The input rows that createRows_ made, in order.
InputRows == SelectSeq([i \in RowIdx |-> RowAt(info, i)],
                       LAMBDA row : row.type = "input row")

\* The element types an input contributes: its fields, then its input element
\* (a dummy input has none).
InputElemTypes(inf, input) ==
    [j \in 1..Len(input.fieldRow) |-> "field"]
    \o (IF input.type = NEXT_STATEMENT THEN <<"statement input">>
        ELSE IF input.type = DUMMY_INPUT THEN <<>>
        ELSE IF inf.isInline THEN <<"inline input">>
        ELSE <<"external value input">>)

\* The rule of the claim: the input begins a new row.
BeginsRow(inf, input) == input.type = NEXT_STATEMENT \/ ~inf.isInline

\* The rows that the row-break rule gives for the visible inputs from the
\* k-th on, as element types: done are the finished rows, active the types of
\* the current row. The first visible input joins the current row.
RECURSIVE RowsByRule(_, _, _, _, _)
RowsByRule(inf, inputs, k, done, active) ==
    IF k > Len(inputs)
    THEN LET final == IF inf.isCollapsed THEN Append(active, "jagged edge")
                      ELSE active
         IN IF final = <<>> THEN done ELSE Append(done, final)
    ELSE IF k > 1 /\ BeginsRow(inf, inputs[k])
    THEN RowsByRule(inf, inputs, k + 1, Append(done, active),
                    InputElemTypes(inf, inputs[k]))
    ELSE RowsByRule(inf, inputs, k + 1, done,
                    active \o InputElemTypes(inf, inputs[k]))

\* An element of an input that begins its row has only fields before it.
StartsItsRow(row, p) == \A q \in 1..(p - 1) : row.elements[q].type = "field"

\* C22 (as claimed): in the rows of createRows_ a new input row begins at
\* every statement input and, when the block is not inline, at every value
\* or dummy input: such an input's element has nothing but fields before it
\* in its row.
C22_RowBreakAsClaimed ==
    RowsCreated =>
        \A r \in 1..Len(InputRows) : \A p \in 1..Len(InputRows[r].elements) :
            LET elem == InputRows[r].elements[p] IN
            (elem.type = "statement input" \/ (elem.isInput /\ ~info.isInline))
                => StartsItsRow(InputRows[r], p)

\* C22 (amended): walking the visible inputs in declaration order, a new
\* input row begins at every statement input after the first visible input,
\* and at every value or dummy input after the first visible input while the
\* block is not in inline mode; in every other case, the first visible input
\* included (it joins the row that holds the icons), the input's fields and
\* input element are appended to the current row; invisible inputs contribute
\* no row and no element.
C22_RowBreak ==
    RowsCreated =>
        [r \in 1..Len(InputRows) |-> TypesOf(InputRows[r].elements)]
            = RowsByRule(info, VisibleInputs(block), 1, <<>>,
                         [j \in 1..Len(ShownIcons(block)) |-> "icon"])

\* C22 witness: an icon, then a statement input that joins the icon's row,
\* then a second statement input that begins a row, and nothing else.
C22_Witness ==
    /\ RowsCreated
    /\ ShownIcons(block) # <<>>
    /\ Len(VisibleInputs(block)) = 2
    /\ \A k \in 1..2 : VisibleInputs(block)[k].type = NEXT_STATEMENT
    /\ Len(InputRows) = 2
    /\ InputRows[1].elements[1].type = "icon"



(***************************** C23 ******************************************)
\* The width a row is aligned to, measured as alignRowElements_ measures it:
\* without the statement input in a statement row.
AlignedWidth(row) ==
    IF row.hasStatement THEN row.width - row.elements[getLastInput(row)].width
    ELSE row.width

DesiredWidth(inf, row) ==
    IF row.hasStatement THEN inf.statementEdge - inf.startX
    ELSE inf.width - inf.startX

\* What alignRowElements_ may do to one row: nothing, or change the width of
\* the row's last spacer and the row's width by the same amount, which brings
\* the row to its desired width.
AlignedFrom(inf, row, row2) ==
    LET lastSpacer == getLastSpacer(row)
        amount == row2.width - row.width
    IN /\ Len(row2.elements) = Len(row.elements)
       /\ \A j \in 1..Len(row.elements) :
             row2.elements[j] =
                 IF j = lastSpacer
                 THEN [row.elements[j] EXCEPT !.width = @ + amount]
                 ELSE row.elements[j]
       /\ [row2 EXCEPT !.elements = row.elements, !.width = row.width] = row
       /\ amount # 0 => /\ lastSpacer # 0
                        /\ AlignedWidth(row2) = DesiredWidth(inf, row2)
       /\ row2.width = SumWidths(row2.elements)
       /\ row.hasInlineInput => row2 = row

BoundsComputed == pc = "alignRowElements_" /\ calls = 1

\* The largest value of a set of naturals, 0 for the empty set.
MaxOf(S) == IF S = {} THEN 0 ELSE CHOOSE m \in S : \A n \in S : n <= m

StatementRows == {i \in RowIdx : RowAt(info, i).hasStatement}

\* C24: after computeBounds_ the block width is the largest row width, plus
\* the output connection's width when there is one; statementEdge is the
\* largest, over the rows with a statement input, of the row's width minus the
\* width of its statement input, and 0 without such a row; every statement
\* row's own statementEdge is that value.
C24_Bounds ==
    BoundsComputed =>
        /\ info.width =
              MaxOf({RowAt(info, i).width : i \in RowIdx})
              + (IF block.outputConnection THEN OutputConnection.width ELSE 0)
        /\ info.statementEdge =
              MaxOf({RowAt(info, i).width - StatementInputWidth(RowAt(info, i)) :
                       i \in StatementRows})
        /\ \A i \in StatementRows :
              RowAt(info, i).statementEdge = info.statementEdge


(***************************** C25 ******************************************)
\* The number of spacers that addElemSpacing_ puts before the first element.
LeadingSpacers(row) ==
    IF row.type = "top row" \/ row.type = "bottom row" THEN 0 ELSE 1

\* row2 is row with spacers added: the k-th original element sits behind the
\* leading spacers and one spacer for each earlier element, everything else
\* is a spacer, and nothing but the element list has changed.
SpacedFrom(row, row2) ==
    LET n == Len(row.elements)
        lead == LeadingSpacers(row)
        Place(k) == lead + 2 * k - 1
    IN /\ Len(row2.elements) >= lead + 2 * n - 1
       /\ Len(row2.elements) >= lead
       /\ \A k \in 1..n : row2.elements[Place(k)] = row.elements[k]
       /\ \A p \in 1..Len(row2.elements) :
             (\A k \in 1..n : p # Place(k)) => row2.elements[p].type = "in-row spacer"
       /\ [row2 EXCEPT !.elements = row.elements] = row

\* C25: addElemSpacing_ keeps every row's original elements in their original
\* order, puts exactly one spacer between every adjacent pair of them and one
\* spacer before the first element of every row except the top row and the
\* bottom row, which start with their first original element.
C25_ElemSpacing ==
    [][(pc = "addElemSpacing_" /\ pc' = "computeBounds_") =>
          /\ [info' EXCEPT !.heap = info.heap] = info
          /\ DOMAIN info'.heap = DOMAIN info.heap
          /\ \A i \in RowIdx :
                SpacedFrom(RowAt(info, i), info'.heap[info.rows[i]])]_vars

\* C25 witness: the spacing pass has run on an input row with at least three
\* elements (now separated by spacers, with a leading spacer) and on a top
\* row and a bottom row with at least two elements each, which start with
\* their first element.
C25_Witness ==
    /\ pc = "computeBounds_" /\ calls = 1
    /\ \E i \in RowIdx :
          LET row == RowAt(info, i) IN
          /\ row.type = "input row"
          /\ Len(NonSpacers(row)) >= 3
          /\ isSpacer(row.elements[1]) /\ ~isSpacer(row.elements[2])
    /\ \A i \in {1, Len(info.rows)} :
          LET row == RowAt(info, i) IN
          /\ Len(NonSpacers(row)) >= 2
          /\ ~isSpacer(row.elements[1]) /\ isSpacer(row.elements[2])


(***************************** C26 ******************************************)
\* C26: addRowSpacing_ turns n rows into 2n-1 rows: the original rows keep
\* their order and are not changed, exactly one spacer row stands between
\* each formerly adjacent pair and none before the first or after the last;
\* each spacer row is one medium padding high and block width - startX wide,
\* and its followsStatement flag is set exactly when the row just before it
\* has a statement input.
C26_RowSpacing ==
    [][(pc = "addRowSpacing_" /\ pc' = "finalize_") =>
          LET n == Len(info.rows) IN
          /\ Len(info'.rows) = 2 * n - 1
          /\ [info' EXCEPT !.heap = info.heap, !.rows = info.rows] = info
          /\ \A k \in 1..n :
                /\ info'.rows[2 * k - 1] = info.rows[k]
                /\ RowAt(info', 2 * k - 1) = RowAt(info, k)
          /\ \A k \in 1..(n - 1) :
                LET spacer == RowAt(info', 2 * k) IN
                /\ spacer.type = "between-row spacer"
                /\ info'.rows[2 * k] \notin DOMAIN info.heap
                /\ spacer.height = MEDIUM_PADDING
                /\ spacer.width = info.width - info.startX
                /\ spacer.followsStatement <=> RowAt(info, k).hasStatement]_vars

\* C26 witness: the pass has turned four rows into seven; one spacer row
\* follows a statement row and one does not.
C26_Witness ==
    /\ pc = "finalize_" /\ calls = 1
    /\ Len(info.rows) = 7
    /\ \E k \in 1..3 : RowAt(info, 2 * k).followsStatement
    /\ \E k \in 1..3 : ~RowAt(info, 2 * k).followsStatement
    /\ \A k \in 1..3 : RowAt(info, 2 * k).type = "between-row spacer"
    /\ \A k \in 1..4 : RowAt(info, 2 * k - 1).type # "between-row spacer"
    /\ info.startX > 0


(***************************** C27 ******************************************)
\* addElemSpacing_ of the first measure() has just run.
ElemsSpaced == pc = "computeBounds_" /\ calls = 1

\* The width the spacing policy gives the spacer at position p of a row.
PolicyWidth(elems, p) ==
    IF p = Len(elems) /\ p > 1 /\ elems[p - 1].type = "external value input"
    THEN NO_PADDING
    ELSE IF p = Len(elems) /\ p > 1 /\ elems[p - 1].type = "inline input"
    THEN LARGE_PADDING
    ELSE IF p = Len(elems) /\ p > 1 /\ elems[p - 1].type = "statement input"
    THEN NO_PADDING
    ELSE MEDIUM_PADDING

FragsOf(rowName, i) == SelectSeq(ElemFrags(rowName), LAMBDA f : f.elem = i)

DrawnRow(rowName) == IF rowName = "top" THEN DrawnTopRow ELSE DrawnBottomRow

\* The arc of OUTSIDE_CORNERS for a corner of a row.
CornerArc(rowName, right) ==
    IF rowName = "top"
    THEN (IF right THEN "OUTSIDE_CORNERS.topRight" ELSE "OUTSIDE_CORNERS.topLeft")
    ELSE (IF right THEN "OUTSIDE_CORNERS.bottomRight" ELSE "OUTSIDE_CORNERS.bottomLeft")

\* C28: every rounded corner is drawn: a Zelos RoundCorner ('round corner')
\* is classified as a rounded corner that is not a right corner, a Zelos
\* RightRoundCorner ('right round corner') as a rounded corner that is a right
\* corner, and the outline walk has appended exactly one fragment for each of
\* them: OUTSIDE_CORNERS.topLeft / topRight in the top row and
\* OUTSIDE_CORNERS.bottomLeft / bottomRight in the bottom row.
C28_RoundedCornersDrawn ==
    Drawn =>
        \A rowName \in {"top", "bottom"} :
            \A i \in 1..Len(DrawnRow(rowName).elements) :
                LET elem == DrawnRow(rowName).elements[i] IN
                /\ elem.type = "round corner" =>
                      /\ isRoundedCorner(elem) /\ ~isRightCorner(elem)
                      /\ FragsOf(rowName, i)
                            = <<Frag(CornerArc(rowName, FALSE), 0, 0, rowName, i)>>
                /\ elem.type = "right round corner" =>
                      /\ isRoundedCorner(elem) /\ isRightCorner(elem)
                      /\ FragsOf(rowName, i)
                            = <<Frag(CornerArc(rowName, TRUE), 0, 0, rowName, i)>>

\* The left Zelos corner alone is classified and drawn as claimed.
C28_LeftCornersDrawn ==
    Drawn =>
        \A rowName \in {"top", "bottom"} :
            \A i \in 1..Len(DrawnRow(rowName).elements) :
                LET elem == DrawnRow(rowName).elements[i] IN
                elem.type = "round corner" =>
                      /\ isRoundedCorner(elem) /\ ~isRightCorner(elem)
                      /\ FragsOf(rowName, i)
                            = <<Frag(CornerArc(rowName, FALSE), 0, 0, rowName, i)>>


(***************************** C29 ******************************************)
\* The displacements of a path's segments, and the same with the sign of
\* every vertical displacement flipped.
Displacements(path) == [k \in 1..Len(path) |-> <<path[k].dx, path[k].dy>>]
FlipY(path) == [k \in 1..Len(path) |-> <<path[k].dx, -path[k].dy>>]

Called(fns) == fns \subseteq DOMAIN paths

\* C29: for the hexagonal and the rounded shape descriptor and every height
\* h, the up path is the down path with the sign of every vertical
\* displacement flipped, for the left pair (pathUp, pathDown) and for the
\* right pair (pathRightUp, pathRightDown); width(h) = h/2 and height(h) = h.
C29_UpDownSymmetry ==
    /\ Called({"pathUp", "pathDown"}) =>
          Displacements(paths["pathUp"]) = FlipY(paths["pathDown"])
    /\ Called({"pathRightUp", "pathRightDown"}) =>
          Displacements(paths["pathRightUp"]) = FlipY(paths["pathRightDown"])
    /\ "width" \in DOMAIN sizes => 2 * sizes["width"] = dynamic.height
    /\ "height" \in DOMAIN sizes => sizes["height"] = dynamic.height

\* The left pair and the sizes alone are as claimed.
C29_LeftPairSymmetry ==
    /\ Called({"pathUp", "pathDown"}) =>
          Displacements(paths["pathUp"]) = FlipY(paths["pathDown"])
    /\ "width" \in DOMAIN sizes => 2 * sizes["width"] = dynamic.height
    /\ "height" \in DOMAIN sizes => sizes["height"] = dynamic.height

\* The right pair of a shape of non-zero height: both paths are the same.
C29_RightPairSame ==
    /\ Called({"pathRightUp", "pathRightDown"})
    /\ dynamic.height > 0
    /\ paths["pathRightUp"] = paths["pathRightDown"]


(***************************** C30 ******************************************)
\* doClassValidation_ has just returned.
Validated == pc = "doClassValidation_"

\* C30: doClassValidation_ returns either null (the input is not a number) or
\* a number n with min <= n <= max that, when the precision is non-zero, is a
\* multiple of the precision, for every input value and every min, max and
\* precision set on the field.
C30_ResultFulfilsConstraints ==
    Validated =>
        \/ validated.result = <<>> /\ toNumber(cleanUpText(validated.text)) = <<>>
        \/ /\ validated.result # <<>>
           /\ LET n == validated.result[1] IN
              /\ field.min_ <= n /\ n <= field.max_
              /\ field.precision_ # 0 => n % field.precision_ = 0

\* A field whose minimum does not exceed its maximum returned a number above
\* the maximum.
C30_RoundedAboveMax ==
    /\ Validated
    /\ field.min_ <= field.max_
    /\ validated.result # <<>>
    /\ validated.result[1] > field.max_

\* Without a precision the result is null or within the range, whenever the
\* minimum does not exceed the maximum.
C30_InRangeWithoutPrecision ==
    (Validated /\ field.precision_ = 0 /\ field.min_ <= field.max_) =>
        \/ validated.result = <<>>
        \/ /\ validated.result # <<>>
           /\ field.min_ <= validated.result[1]
           /\ validated.result[1] <= field.max_

====
